---- MODULE Spec2Model ----
(***************************************************************************)
(* A model of nessim, a transistor-level NES simulator: the network build, *)
(* the relaxation engine (recalc_node_list and its helpers), the pin and   *)
(* byte operations, power-on and reset, the ROM load and the half-step     *)
(* driver with its external memory.                                        *)
(***************************************************************************)
EXTENDS Integers, Sequences, FiniteSets, TLC

VARIABLES
  state, pullup, pulldown, floating,   \* nodes[n].state / pullup / pulldown / floating
  on,                                  \* transistors[i].on
  has_ground, has_power, group,        \* scratch of the group collector
  processed_nodes,                     \* the "already queued" flags
  lists, indices,                      \* recalc_swap_list
  step_cycle_count,
  prev_ppu_ale, prev_ppu_write, prev_ppu_read,
  chr_address, last_address,
  mirroring_type,
  chr_ram, nametable_ram, cpu_ram, prg_ram,
  last_cpu_db_value, last_data,
  prev_hpos,
  ppu_framebuffer,
  aborted,                             \* a panic has ended the process
  iter_count,                          \* recalc_node_list's loop counter at its last exit
  db_sampled,                          \* history: the byte last read off the cpu data bus
  pc,                                  \* position inside a stepped recalc_node_list
  set,                                 \* ProcessedNodesSet: the bytes of its bit vector
  last_op,                             \* history: the operation that led here
  ops                                  \* history: operations run so far

vars ==
  << state, pullup, pulldown, floating, on, has_ground, has_power, group,
     processed_nodes, lists, indices, step_cycle_count, prev_ppu_ale,
     prev_ppu_write, prev_ppu_read, chr_address, last_address, mirroring_type,
     chr_ram, nametable_ram, cpu_ram, prg_ram, last_cpu_db_value, last_data,
     prev_hpos, ppu_framebuffer, aborted, iter_count, db_sampled, pc,
     set, last_op, ops >>

\* recalc_node_list: for iter_count in 0..100
ITER_RANGE == 100
\* recalc_node_list: if iter_count >= 99 { panic!(...) }
ITER_PANIC == 99

NUM_NODES == 33001
EMPTYNODE == 65535
NODE_GND == 2
NODE_PWR == 1
NODE_CLK0 == 772
NODE_RESET == 1934
NODE_IO_CE == 5
NODE_INT == 1031
NODE_ALE == 1611
NODE_RD == 2428
NODE_WR == 2087
NODE_CPU_SO == 24246
NODE_CPU_IRQ == 23488
NODE_CPU_NMI == 1031
NODE_CPU_CLK0 == 24235
NODE_AB0 == 1991
NODE_AB1 == 2370
NODE_AB2 == 2650
NODE_AB3 == 2776
NODE_AB4 == 2775
NODE_AB5 == 2774
NODE_AB6 == 2773
NODE_AB7 == 2772
NODE_AB8 == 2771
NODE_AB9 == 2770
NODE_AB10 == 2769
NODE_AB11 == 2768
NODE_AB12 == 2767
NODE_AB13 == 2649
NODE_CPU_AB0 == 23020
NODE_CPU_AB1 == 23019
NODE_CPU_AB2 == 23030
NODE_CPU_AB3 == 23091
NODE_CPU_AB4 == 23335
NODE_CPU_AB5 == 23489
NODE_CPU_AB6 == 23727
NODE_CPU_AB7 == 24521
NODE_CPU_AB8 == 24628
NODE_CPU_AB9 == 24817
NODE_CPU_AB10 == 24965
NODE_CPU_AB11 == 25055
NODE_CPU_AB12 == 25084
NODE_CPU_AB13 == 25083
NODE_CPU_AB14 == 25085
NODE_CPU_AB15 == 25086
NODE_CPU_DB0 == 24819
NODE_CPU_DB1 == 24966
NODE_CPU_DB2 == 25056
NODE_CPU_DB3 == 25091
NODE_CPU_DB4 == 25090
NODE_CPU_DB5 == 25089
NODE_CPU_DB6 == 25088
NODE_CPU_DB7 == 25087
NODE_DB0 == 1991
NODE_DB1 == 2370
NODE_DB2 == 2650
NODE_DB3 == 2776
NODE_DB4 == 2775
NODE_DB5 == 2774
NODE_DB6 == 2773
NODE_DB7 == 2772
NODE_CPU_RW == 1224
NODE_PAL_D0_OUT == 1215
NODE_PAL_D1_OUT == 6565
NODE_PAL_D2_OUT == 6566
NODE_PAL_D3_OUT == 6567
NODE_PAL_D4_OUT == 6564
NODE_PAL_D5_OUT == 6568
NODE_PCLK1 == 58
NODE_HPOS0 == 209
NODE_HPOS1 == 260
NODE_HPOS2 == 310
NODE_HPOS3 == 376
NODE_HPOS4 == 428
NODE_HPOS5 == 495
NODE_HPOS6 == 544
NODE_HPOS7 == 584
NODE_HPOS8 == 631
NODE_VPOS0 == 210
NODE_VPOS1 == 259
NODE_VPOS2 == 311
NODE_VPOS3 == 377
NODE_VPOS4 == 429
NODE_VPOS5 == 496
NODE_VPOS6 == 543
NODE_VPOS7 == 588
NODE_VPOS8 == 632
(***************************************************************************)
(* The model netlist.  The simulator reads its netlist from text tables    *)
(* (segment and transistor definitions); the tables below are a small die  *)
(* in the same format: every pin the half-step driver touches, plus a few  *)
(* internal nets.                                                          *)
(*   3003        gate of a pass transistor between cpu_db0 and cpu_db1     *)
(*   3001, 3002  an inverter fed back on itself, enabled by cpu_so         *)
(*   3004        a net tied to int through a transistor gated by power     *)
(*   3005        the inverse of cpu_clk0 (pulled up, grounded by cpu_clk0)  *)
(*   6001, 6002  the two sides of palette latch bit 0 (cross coupled),     *)
(*               6001 also gates the pull-down of pal_d0_out               *)
(*   359, 566, 3006   three nets joined in a ring by pass transistors, 359 *)
(*               and 3006 with a transistor to ground, 566 and 3006 with   *)
(*               one to power; 359 and 566 are on the resolver's list of   *)
(*               nets that tolerate a short between the rails              *)
(*   3007..3013  the gates of those seven transistors, one each            *)
(***************************************************************************)

\* A segment record id, pullup, layer, x0, y0, ... : a w-by-h rectangle.
Rect(id, pu, w, h) == <<id, pu, 0, 0, 0, w, 0, w, h, 0, h>>

PinSeq ==
  << NODE_CLK0, NODE_RESET, NODE_IO_CE, NODE_INT, NODE_ALE, NODE_RD, NODE_WR,
     NODE_CPU_SO, NODE_CPU_IRQ, NODE_CPU_NMI,
     NODE_AB0, NODE_AB1, NODE_AB2, NODE_AB3, NODE_AB4, NODE_AB5, NODE_AB6,
     NODE_AB7, NODE_AB8, NODE_AB9, NODE_AB10, NODE_AB11, NODE_AB12, NODE_AB13,
     NODE_CPU_AB0, NODE_CPU_AB1, NODE_CPU_AB2, NODE_CPU_AB3, NODE_CPU_AB4,
     NODE_CPU_AB5, NODE_CPU_AB6, NODE_CPU_AB7, NODE_CPU_AB8, NODE_CPU_AB9,
     NODE_CPU_AB10, NODE_CPU_AB11, NODE_CPU_AB12, NODE_CPU_AB13,
     NODE_CPU_AB14, NODE_CPU_AB15,
     NODE_CPU_DB0, NODE_CPU_DB1, NODE_CPU_DB2, NODE_CPU_DB3, NODE_CPU_DB4,
     NODE_CPU_DB5, NODE_CPU_DB6, NODE_CPU_DB7,
     NODE_PAL_D1_OUT, NODE_PAL_D2_OUT, NODE_PAL_D3_OUT, NODE_PAL_D4_OUT,
     NODE_PAL_D5_OUT, NODE_PCLK1,
     NODE_HPOS0, NODE_HPOS1, NODE_HPOS2, NODE_HPOS3, NODE_HPOS4, NODE_HPOS5,
     NODE_HPOS6, NODE_HPOS7, NODE_HPOS8,
     NODE_VPOS0, NODE_VPOS1, NODE_VPOS2, NODE_VPOS3, NODE_VPOS4, NODE_VPOS5,
     NODE_VPOS6, NODE_VPOS7, NODE_VPOS8 >>

\* load_segment_definitions: the segment table (plain pins are unit squares).
seg_defs ==
  << Rect(NODE_PWR, 0, 3, 3), Rect(NODE_GND, 0, 3, 3) >>
  \o [k \in 1..Len(PinSeq) |-> Rect(PinSeq[k], 0, 1, 1)]
  \o << Rect(NODE_CPU_CLK0, 1, 1, 1),
        Rect(NODE_CPU_RW, 1, 1, 1),
        Rect(NODE_PAL_D0_OUT, 1, 1, 1),
        Rect(3001, 1, 1, 1), Rect(3002, 0, 1, 1),
        Rect(3003, 0, 1, 1), Rect(3004, 0, 2, 1), Rect(3005, 1, 1, 1),
        Rect(6001, 1, 1, 1), Rect(6002, 1, 1, 1),
        Rect(NODE_CPU_DB0, 1, 1, 2),
        Rect(359, 0, 2, 1), Rect(566, 0, 1, 1), Rect(3006, 0, 1, 1),
        Rect(3007, 0, 1, 1), Rect(3008, 0, 1, 1), Rect(3009, 0, 1, 1),
        Rect(3010, 0, 1, 1), Rect(3011, 0, 1, 1), Rect(3012, 0, 1, 1),
        Rect(3013, 0, 1, 1) >>

\* load_transistor_definitions: the transistor table (gate, c1, c2).
trans_defs ==
  << [gate |-> NODE_CLK0,   c1 |-> NODE_GND,        c2 |-> NODE_CPU_CLK0],
     [gate |-> 3003,        c1 |-> NODE_CPU_DB0,    c2 |-> NODE_CPU_DB1],
     [gate |-> 6001,        c1 |-> 6002,            c2 |-> NODE_GND],
     [gate |-> 6002,        c1 |-> NODE_GND,        c2 |-> 6001],
     [gate |-> 6001,        c1 |-> NODE_PAL_D0_OUT, c2 |-> NODE_GND],
     [gate |-> 3001,        c1 |-> 3001,            c2 |-> 3002],
     [gate |-> NODE_CPU_SO, c1 |-> 3002,            c2 |-> NODE_GND],
     [gate |-> NODE_PWR,    c1 |-> NODE_INT,        c2 |-> 3004],
     [gate |-> NODE_CPU_CLK0, c1 |-> 3005,          c2 |-> NODE_GND],
     [gate |-> 3007,        c1 |-> 359,             c2 |-> 566],
     [gate |-> 3008,        c1 |-> 566,             c2 |-> 3006],
     [gate |-> 3009,        c1 |-> 3006,            c2 |-> 359],
     [gate |-> 3010,        c1 |-> NODE_GND,        c2 |-> 359],
     [gate |-> 3011,        c1 |-> 566,             c2 |-> NODE_PWR],
     [gate |-> 3012,        c1 |-> 3006,            c2 |-> NODE_GND],
     [gate |-> 3013,        c1 |-> NODE_PWR,        c2 |-> 3006] >>

\* load_ppu_nodes: palette bytes 0 and 1, six (node0, node1) latch pairs
\* each; a negative id marks an absent bit.
palette_nodes ==
  << << <<6001, 6002>>, <<-1, -1>>, <<-1, -1>>, <<-1, -1>>, <<-1, -1>>, <<-1, -1>> >>,
     << <<-1, -1>>, <<6002, 6001>>, <<-1, 6001>>, <<6002, -1>>, <<-1, -1>>, <<-1, -1>> >> >>

\* load_ppu_nodes: sprite byte 0, eight latch pairs, only bit 7 present.
sprite_nodes ==
  << << <<-1, -1>>, <<-1, -1>>, <<-1, -1>>, <<-1, -1>>,
        <<-1, -1>>, <<-1, -1>>, <<-1, -1>>, <<6001, 6002>> >> >>

(***************************************************************************)
(* Network build (preprocessor).                                           *)
(***************************************************************************)

\* Rust slices index from 0.
At0(seq, k) == seq[k + 1]

Abs(x) == IF x < 0 THEN -x ELSE x

RECURSIVE ShoelaceLoop(_, _, _)
ShoelaceLoop(seg, j, area) ==
  IF j + 4 >= Len(seg) THEN area
  ELSE ShoelaceLoop(seg, j + 2,
         area + At0(seg, j) * At0(seg, j + 3) - At0(seg, j + 2) * At0(seg, j - 1))

\* setup_nodes: the area one segment record adds to its node.
SegArea(seg) ==
  Abs(ShoelaceLoop(seg, 3,
        At0(seg, Len(seg) - 2) * At0(seg, 4) - At0(seg, 3) * At0(seg, Len(seg) - 1)))

NodeIds == {seg_defs[k][1] : k \in 1..Len(seg_defs)}

FirstSeg(n) == CHOOSE k \in 1..Len(seg_defs) :
                 /\ seg_defs[k][1] = n
                 /\ \A j \in 1..(k - 1) : seg_defs[j][1] # n

RECURSIVE SumArea(_, _)
SumArea(n, k) ==
  IF k > Len(seg_defs) THEN 0
  ELSE (IF seg_defs[k][1] = n THEN SegArea(seg_defs[k]) ELSE 0) + SumArea(n, k + 1)

\* setup_nodes: NodeDefinition per id (pullup from the first record, area
\* summed over the records, rails skipped).
node_defs ==
  [n \in NodeIds |->
     [num    |-> n,
      pullup |-> (seg_defs[FirstSeg(n)][2] = 1),
      state  |-> FALSE,
      area   |-> IF n = NODE_GND \/ n = NODE_PWR THEN 0 ELSE SumArea(n, 1)]]

\* setup_nodes over any segment table: one NodeDefinition per head id, the
\* pullup of the first record that names it, the records' areas summed, the
\* rails left at area 0.
setup_nodes(segdefs) ==
  [n \in {segdefs[k][1] : k \in 1..Len(segdefs)} |->
     LET first == CHOOSE k \in 1..Len(segdefs) :
                    /\ segdefs[k][1] = n
                    /\ \A j \in 1..(k - 1) : segdefs[j][1] # n
         sum[k \in 1..(Len(segdefs) + 1)] ==
           IF k > Len(segdefs) THEN 0
           ELSE (IF segdefs[k][1] = n THEN SegArea(segdefs[k]) ELSE 0) + sum[k + 1]
     IN  [num    |-> n,
          pullup |-> (segdefs[first][2] = 1),
          state  |-> FALSE,
          area   |-> IF n = NODE_GND \/ n = NODE_PWR THEN 0 ELSE sum[1]]]

TransIds == 0..(Len(trans_defs) - 1)

\* setup_transistors with only the ground test: power on c1 stays on c1
CanonicalGndOnly(def) ==
  LET a == IF def.c1 = NODE_GND
             THEN [c1 |-> def.c2, c2 |-> NODE_GND]
             ELSE [c1 |-> def.c1, c2 |-> def.c2]
  IN  [c1 |-> a.c1, c2 |-> a.c2, gate |-> def.gate]

\* setup_transistors: a rail on c1 moves to c2.
Canonical(def) ==
  LET a == IF def.c1 = NODE_GND
             THEN [c1 |-> def.c2, c2 |-> NODE_GND]
             ELSE [c1 |-> def.c1, c2 |-> def.c2]
      b == IF a.c1 = NODE_PWR
             THEN [c1 |-> a.c2, c2 |-> NODE_PWR]
             ELSE a
  IN  [c1 |-> b.c1, c2 |-> b.c2, gate |-> def.gate]

transistors == [i \in TransIds |-> Canonical(trans_defs[i + 1])]

RECURSIVE GatesOf(_, _)
GatesOf(n, i) ==
  IF i >= Len(trans_defs) THEN <<>>
  ELSE (IF transistors[i].gate = n THEN <<i>> ELSE <<>>) \o GatesOf(n, i + 1)

\* setup_transistors: nodes[gate].gates.push(i)
gates == [n \in NodeIds |-> GatesOf(n, 0)]

RECURSIVE ChannelsOf(_, _)
ChannelsOf(n, i) ==
  IF i >= Len(trans_defs) THEN <<>>
  ELSE (IF transistors[i].c1 = n THEN <<i>> ELSE <<>>)
       \o (IF transistors[i].c2 = n THEN <<i>> ELSE <<>>)
       \o ChannelsOf(n, i + 1)

\* setup_transistors: nodes_c1_c2 / node_counts (rails keep no list).
nodes_c1_c2 ==
  [n \in NodeIds |-> IF n = NODE_GND \/ n = NODE_PWR THEN <<>> ELSE ChannelsOf(n, 0)]

node_counts == [n \in NodeIds |-> Len(nodes_c1_c2[n])]

\* new: def.gate == NODE_PWR, per transistor definition
transistors_initial_power_state ==
  [i \in TransIds |-> trans_defs[i + 1].gate = NODE_PWR]

RECURSIVE IdsInRange(_, _, _)
\* the node slots lo..hi that hold a node, in index order, but the ids in skip
IdsInRange(lo, hi, skip) ==
  IF lo > hi THEN <<>>
  ELSE IF lo = hi
    THEN IF lo \in NodeIds \ skip THEN <<lo>> ELSE <<>>
  ELSE IdsInRange(lo, (lo + hi) \div 2, skip)
       \o IdsInRange((lo + hi) \div 2 + 1, hi, skip)

\* new: the ids of all nodes but the rails and the empty slots, in index order
all_recalc_nodes == IdsInRange(0, NUM_NODES - 1, {NODE_PWR, NODE_GND, EMPTYNODE})

\* self.nodes, as the ids in index order
node_slots == IdsInRange(0, NUM_NODES - 1, {})
(***************************************************************************)
(* Relaxation engine.  The operators below take and return a record s with *)
(* the fields of SimulationState; s.aborted records a panic, after which   *)
(* nothing more runs.                                                       *)
(***************************************************************************)

IsRail(n) == n = NODE_GND \/ n = NODE_PWR

\* RecalcSwapList::init
swap_list_init(s, list) ==
  [s EXCEPT !.lists[0] = list, !.indices = <<0, 1>>]

cur_list(s) == s.lists[s.indices[1]]

next_list(s) == s.lists[s.indices[2]]

\* RecalcSwapList::push_next_list
push_next_list(s, n) == [s EXCEPT !.lists[s.indices[2]] = Append(@, n)]

\* RecalcSwapList::swap
swap(s) ==
  [s EXCEPT !.lists[s.indices[1]] = <<>>,
            !.indices = <<s.indices[2], s.indices[1]>>]

add_recalc_node(s, n) ==
  IF IsRail(n) THEN s
  ELSE IF ~s.processed_nodes[n]
         THEN [push_next_list(s, n) EXCEPT !.processed_nodes[n] = TRUE]
         ELSE s

turn_transistor_on(s, i) ==
  IF ~s.on[i]
    THEN add_recalc_node([s EXCEPT !.on[i] = TRUE], transistors[i].c1)
    ELSE s

\* turn_transistor_off with the flag left set
turn_transistor_off_kept(s, i) ==
  IF s.on[i]
    THEN add_recalc_node(add_recalc_node(s, transistors[i].c1), transistors[i].c2)
    ELSE s

turn_transistor_off(s, i) ==
  IF s.on[i]
    THEN add_recalc_node(
           add_recalc_node([s EXCEPT !.on[i] = FALSE], transistors[i].c1),
           transistors[i].c2)
    ELSE s

\* the other end taken to be c2 whichever end the walk came from
OtherEndC2(t, n) == t.c2

\* add_node_to_group: the channel end of transistor t that is not node n
OtherEnd(t, n) == IF t.c1 = n THEN t.c2 ELSE t.c1

RECURSIVE add_node_to_group(_, _)
RECURSIVE WalkChannels(_, _, _)
\* add_node_to_group: the loop over nodes_c1_c2[node_number][0..node_counts)
WalkChannels(s, n, i) ==
  IF i >= node_counts[n] THEN s
  ELSE WalkChannels(
         IF s.on[At0(nodes_c1_c2[n], i)]
           THEN add_node_to_group(s, OtherEnd(transistors[At0(nodes_c1_c2[n], i)], n))
           ELSE s,
         n, i + 1)

add_node_to_group(s, n) ==
  IF n = NODE_GND THEN [s EXCEPT !.has_ground = TRUE]
  ELSE IF n = NODE_PWR THEN [s EXCEPT !.has_power = TRUE]
  ELSE IF \E k \in 1..Len(s.group) : s.group[k] = n THEN s
  ELSE WalkChannels([s EXCEPT !.group = Append(@, n)], n, 0)

get_node_group(s, n) ==
  add_node_to_group(
    [s EXCEPT !.has_ground = FALSE, !.has_power = FALSE, !.group = <<>>], n)

\* get_node_value: the nodes that tolerate a short between the rails
WeakDrive == {359, 566, 691, 871, 870, 864, 856, 818}

\* get_node_value, first part: both rails reached and a weak-drive node in
\* the group clears both flags.
ClearRailsIfWeak(s) ==
  IF s.has_ground /\ s.has_power
     /\ \E k \in 1..Len(s.group) : s.group[k] \in WeakDrive
    THEN [s EXCEPT !.has_ground = FALSE, !.has_power = FALSE]
    ELSE s

RECURSIVE AreaVoteTieHigh(_, _, _, _)
\* the loop of get_node_value with equal areas going high
AreaVoteTieHigh(s, k, hi_area, lo_area) ==
  IF k > Len(s.group) THEN hi_area >= lo_area
  ELSE IF s.pullup[s.group[k]] THEN TRUE
  ELSE IF s.pulldown[s.group[k]] THEN FALSE
  ELSE IF s.state[s.group[k]]
    THEN AreaVoteTieHigh(s, k + 1, hi_area + node_defs[s.group[k]].area, lo_area)
    ELSE AreaVoteTieHigh(s, k + 1, hi_area, lo_area + node_defs[s.group[k]].area)

RECURSIVE AreaVote(_, _, _, _)
\* get_node_value, the loop over the group: the first node with a pull
\* decides; otherwise the areas of the high and of the low nodes compete.
AreaVote(s, k, hi_area, lo_area) ==
  IF k > Len(s.group) THEN hi_area > lo_area
  ELSE LET n == s.group[k] IN
       IF s.pullup[n] THEN TRUE
       ELSE IF s.pulldown[n] THEN FALSE
       ELSE IF s.state[n]
         THEN AreaVote(s, k + 1, hi_area + node_defs[n].area, lo_area)
         ELSE AreaVote(s, k + 1, hi_area, lo_area + node_defs[n].area)

\* get_node_value testing has_power before has_ground
NodeValuePowerFirst(s) ==
  IF s.has_power THEN TRUE
  ELSE IF s.has_ground THEN FALSE
  ELSE AreaVote(s, 1, 0, 0)

\* get_node_value, the result for flags already cleared by ClearRailsIfWeak
NodeValue(s) ==
  IF s.has_ground THEN FALSE
  ELSE IF s.has_power THEN TRUE
  ELSE AreaVote(s, 1, 0, 0)

RECURSIVE ToggleGates(_, _, _)
\* recalc_node_list: for i in &nodes[node_number].gates
ToggleGates(s, m, k) ==
  IF k > Len(gates[m]) THEN s
  ELSE ToggleGates(IF s.state[m] THEN turn_transistor_on(s, gates[m][k])
                                 ELSE turn_transistor_off(s, gates[m][k]),
                   m, k + 1)

RECURSIVE SetGroup(_, _, _)
\* recalc_node_list: for node_number in &self.group
SetGroup(s, new_state, k) ==
  IF k > Len(s.group) THEN s
  ELSE LET m == s.group[k] IN
       IF s.state[m] # new_state
         THEN SetGroup(ToggleGates([s EXCEPT !.state[m] = new_state], m, 1),
                       new_state, k + 1)
         ELSE SetGroup(s, new_state, k + 1)

\* get_node_value: the value returned
get_node_value(s) == NodeValue(ClearRailsIfWeak(s))

\* recalc_node_list: the group g takes the value get_node_value gives it
SetGroupValue(g) == SetGroup(g, NodeValue(g), 1)

\* recalc_node_list: the body of the loop over the current list
RecalcNode(s, n) ==
  IF IsRail(n) THEN s
  ELSE SetGroupValue(ClearRailsIfWeak(get_node_group(s, n)))

RECURSIVE RunPassRange(_, _, _)
\* recalc_node_list: the loop over the current list, entries lo..hi in order
\* (the current list is not written during a pass)
RunPassRange(s, lo, hi) ==
  IF s.aborted \/ lo > hi THEN s
  ELSE IF lo = hi THEN RecalcNode(s, cur_list(s)[lo])
  ELSE RunPassRange(RunPassRange(s, lo, (lo + hi) \div 2), (lo + hi) \div 2 + 1, hi)

\* recalc_node_list: one pass over the current list
RunPass(s) == RunPassRange(s, 1, Len(cur_list(s)))

RECURSIVE ClearRange(_, _, _)
\* recalc_node_list: processed_nodes[n].set(false) for entries lo..hi of the next list
ClearRange(s, lo, hi) ==
  IF s.aborted \/ lo > hi THEN s
  ELSE IF lo = hi THEN [s EXCEPT !.processed_nodes[next_list(s)[lo]] = FALSE]
  ELSE ClearRange(ClearRange(s, lo, (lo + hi) \div 2), (lo + hi) \div 2 + 1, hi)

\* recalc_node_list: the loop over the next list before the swap
ClearProcessed(s) == ClearRange(s, 1, Len(next_list(s)))

\* recalc_node_list: the end of a round, after the pass over the current list
EndRound(p) ==
  IF next_list(p) = <<>>
    THEN [p EXCEPT !.pc = "idle"]
    ELSE [swap(ClearProcessed(p)) EXCEPT !.iter_count = @ + 1]

\* a round without the cap on the loop counter
RelaxIterUncapped(s) == EndRound(RunPass(s))

\* recalc_node_list: one round of `for iter_count in 0..100`, s.pc = "loop"
RelaxIter(s) ==
  IF s.iter_count >= ITER_PANIC
    THEN [s EXCEPT !.aborted = TRUE, !.pc = "panic"]
    ELSE EndRound(RunPass(s))

RECURSIVE RelaxIters(_, _)
\* n rounds of the loop, stopping at the return or the panic
RelaxIters(s, n) ==
  IF n = 0 \/ s.pc # "loop" THEN s
  ELSE IF n = 1 THEN RelaxIter(s)
  ELSE RelaxIters(RelaxIters(s, n \div 2), n - n \div 2)

\* recalc_node_list: swap list seeded, loop counter at 0
RelaxEnter(s, list) ==
  [swap_list_init(s, list) EXCEPT !.iter_count = 0, !.pc = "loop"]

\* recalc_node_list: the range 0..100 exhausted
LeaveLoop(r) == IF r.pc = "loop" THEN [r EXCEPT !.pc = "idle"] ELSE r

recalc_node_list(s, list) ==
  IF s.aborted THEN s
  ELSE LeaveLoop(RelaxIters(RelaxEnter(s, list), ITER_RANGE))

\* set_high leaving the pulldown flag set as well
PullHighBoth(s, n) == [s EXCEPT !.pullup[n] = TRUE, !.pulldown[n] = TRUE]

\* set_high: the two pull flags, before the relaxation
PullHigh(s, n) == [s EXCEPT !.pullup[n] = TRUE, !.pulldown[n] = FALSE]

set_high(s, n) ==
  IF s.aborted THEN s ELSE recalc_node_list(PullHigh(s, n), <<n>>)

\* set_low leaving the pullup flag as it was
PullLowKeepsUp(s, n) == [s EXCEPT !.pulldown[n] = TRUE]

\* set_low: the two pull flags, before the relaxation
PullLow(s, n) == [s EXCEPT !.pullup[n] = FALSE, !.pulldown[n] = TRUE]

set_low(s, n) ==
  IF s.aborted THEN s ELSE recalc_node_list(PullLow(s, n), <<n>>)

is_node_high(s, n) == s.state[n]
(***************************************************************************)
(* Byte and bit access to the network.                                     *)
(***************************************************************************)

RECURSIVE Pow2(_)
Pow2(i) == IF i = 0 THEN 1 ELSE 2 * Pow2(i - 1)

RECURSIVE BitAnd(_, _)
\* x & y on naturals
BitAnd(x, y) ==
  IF x = 0 \/ y = 0 THEN 0
  ELSE (IF x % 2 = 1 /\ y % 2 = 1 THEN 1 ELSE 0) + 2 * BitAnd(x \div 2, y \div 2)

RECURSIVE BitOr(_, _)
\* x | y on naturals
BitOr(x, y) ==
  IF x = 0 THEN y
  ELSE IF y = 0 THEN x
  ELSE (IF x % 2 = 1 \/ y % 2 = 1 THEN 1 ELSE 0) + 2 * BitOr(x \div 2, y \div 2)

RECURSIVE ReadBits(_, _, _)
\* res += (is_node_high(nn) as uN) << i, over the listed nodes
ReadBits(s, nodes, k) ==
  IF k > Len(nodes) THEN 0
  ELSE (IF is_node_high(s, nodes[k]) THEN Pow2(k - 1) ELSE 0) + ReadBits(s, nodes, k + 1)

CpuAddressBus ==
  << NODE_CPU_AB0, NODE_CPU_AB1, NODE_CPU_AB2, NODE_CPU_AB3, NODE_CPU_AB4,
     NODE_CPU_AB5, NODE_CPU_AB6, NODE_CPU_AB7, NODE_CPU_AB8, NODE_CPU_AB9,
     NODE_CPU_AB10, NODE_CPU_AB11, NODE_CPU_AB12, NODE_CPU_AB13,
     NODE_CPU_AB14, NODE_CPU_AB15 >>

CpuDataBus ==
  << NODE_CPU_DB0, NODE_CPU_DB1, NODE_CPU_DB2, NODE_CPU_DB3, NODE_CPU_DB4,
     NODE_CPU_DB5, NODE_CPU_DB6, NODE_CPU_DB7 >>

PpuDataBus ==
  << NODE_DB0, NODE_DB1, NODE_DB2, NODE_DB3, NODE_DB4, NODE_DB5, NODE_DB6, NODE_DB7 >>

PpuAddressBus ==
  << NODE_AB0, NODE_AB1, NODE_AB2, NODE_AB3, NODE_AB4, NODE_AB5, NODE_AB6,
     NODE_AB7, NODE_AB8, NODE_AB9, NODE_AB10, NODE_AB11, NODE_AB12, NODE_AB13 >>

HposBus ==
  << NODE_HPOS0, NODE_HPOS1, NODE_HPOS2, NODE_HPOS3, NODE_HPOS4, NODE_HPOS5,
     NODE_HPOS6, NODE_HPOS7, NODE_HPOS8 >>

VposBus ==
  << NODE_VPOS0, NODE_VPOS1, NODE_VPOS2, NODE_VPOS3, NODE_VPOS4, NODE_VPOS5,
     NODE_VPOS6, NODE_VPOS7, NODE_VPOS8 >>

PalOutBus ==
  << NODE_PAL_D0_OUT, NODE_PAL_D1_OUT, NODE_PAL_D2_OUT, NODE_PAL_D3_OUT,
     NODE_PAL_D4_OUT, NODE_PAL_D5_OUT >>

read_cpu_address_bus(s) == ReadBits(s, CpuAddressBus, 1)

read_cpu_data_bus(s) == ReadBits(s, CpuDataBus, 1)

read_db(s) == ReadBits(s, PpuDataBus, 1)

read_ab(s) == ReadBits(s, PpuAddressBus, 1)

read_hpos(s) == ReadBits(s, HposBus, 1)

read_vpos(s) == ReadBits(s, VposBus, 1)

read_bit(s, n) == IF is_node_high(s, n) THEN 1 ELSE 0

RECURSIVE WritePullsMsbFirst(_, _, _, _)
\* the loop of write_byte taking the bits of val from the top
WritePullsMsbFirst(s, nodes, val, k) ==
  IF k > Len(nodes) THEN s
  ELSE WritePullsMsbFirst(
         IF (val \div 128) % 2 = 0
           THEN [s EXCEPT !.pulldown[nodes[k]] = TRUE, !.pullup[nodes[k]] = FALSE]
           ELSE [s EXCEPT !.pulldown[nodes[k]] = FALSE, !.pullup[nodes[k]] = TRUE],
         nodes, (val * 2) % 256, k + 1)

RECURSIVE WritePulls(_, _, _, _)
\* write_byte: the loop setting one pull per node, val >>= 1 each round
WritePulls(s, nodes, val, k) ==
  IF k > Len(nodes) THEN s
  ELSE WritePulls(
         IF val % 2 = 0
           THEN [s EXCEPT !.pulldown[nodes[k]] = TRUE, !.pullup[nodes[k]] = FALSE]
           ELSE [s EXCEPT !.pulldown[nodes[k]] = FALSE, !.pullup[nodes[k]] = TRUE],
         nodes, val \div 2, k + 1)

write_byte(s, nodes, val) ==
  IF s.aborted THEN s
  ELSE recalc_node_list(WritePulls(s, nodes, val, 1), nodes)

RECURSIVE FloatPulls(_, _, _)
\* float_byte: the loop clearing both pulls
FloatPulls(s, nodes, k) ==
  IF k > Len(nodes) THEN s
  ELSE FloatPulls([s EXCEPT !.pulldown[nodes[k]] = FALSE, !.pullup[nodes[k]] = FALSE],
                  nodes, k + 1)

float_byte(s, nodes) ==
  IF s.aborted THEN s
  ELSE recalc_node_list(FloatPulls(s, nodes, 1), nodes)

write_cpu_db(s, val) == write_byte(s, CpuDataBus, val)

write_db(s, val) == write_byte(s, PpuDataBus, val)

float_cpu_db(s) == float_byte(s, CpuDataBus)

float_db(s) == float_byte(s, PpuDataBus)

RECURSIVE ForceGates(_, _, _, _)
\* set_bit: transistors[gate].on.set(v) for every gate of the node
ForceGates(s, n, v, k) ==
  IF k > Len(gates[n]) THEN s
  ELSE ForceGates([s EXCEPT !.on[gates[n][k]] = v], n, v, k + 1)

\* set_bit: both nodes' gates forced, then both states written
ForceBit(s, n1, n2) ==
  [ForceGates(ForceGates(s, n1, TRUE, 1), n2, FALSE, 1)
     EXCEPT !.state[n1] = TRUE, !.state[n2] = FALSE]

\* set_bit that tests only its second id; a negative first id indexes out
\* of bounds
set_bit_half_test(s, n1, n2) ==
  IF s.aborted \/ n2 < 0 THEN s
  ELSE IF n1 < 0 THEN [s EXCEPT !.aborted = TRUE]
  ELSE recalc_node_list(ForceBit(s, n1, n2), <<n1, n2>>)

set_bit(s, n1, n2) ==
  IF s.aborted \/ n1 < 0 \/ n2 < 0 THEN s
  ELSE recalc_node_list(ForceBit(s, n1, n2), <<n1, n2>>)

RECURSIVE palette_write_from(_, _, _, _)
\* palette_write: for b in 0..6
palette_write_from(s, addr, val, b) ==
  IF b >= 6 THEN s
  ELSE LET pair == At0(At0(palette_nodes, addr), b)
           n0 == pair[1]
           n1 == pair[2]
       IN  palette_write_from(
             IF BitAnd(val, Pow2(b)) > 0 THEN set_bit(s, n1, n0) ELSE set_bit(s, n0, n1),
             addr, val, b + 1)

palette_write(s, addr, val) == palette_write_from(s, addr, val, 0)

RECURSIVE sprite_write_from(_, _, _, _)
\* sprite_write: for b in 0..8
sprite_write_from(s, addr, val, b) ==
  IF b >= 8 THEN s
  ELSE LET pair == At0(At0(sprite_nodes, addr), b)
           n0 == pair[1]
           n1 == pair[2]
       IN  sprite_write_from(
             IF BitAnd(val, Pow2(b)) > 0 THEN set_bit(s, n1, n0) ELSE set_bit(s, n0, n1),
             addr, val, b + 1)

sprite_write(s, addr, val) == sprite_write_from(s, addr, val, 0)

(***************************************************************************)
(* External memory.  A buffer is a function from the indices that hold a   *)
(* non-zero byte to that byte; every other cell of the array holds 0.      *)
(***************************************************************************)

ZeroMem == <<>>

MemGet(m, i) == IF i \in DOMAIN m THEN m[i] ELSE 0

MemSet(m, i, d) ==
  [j \in (IF d = 0 THEN DOMAIN m \ {i} ELSE DOMAIN m \cup {i}) |->
     IF j = i THEN d ELSE m[j]]

\* cpu_read: (byte, open_bus)
cpu_read(s, a) ==
  IF a < 8192 THEN <<MemGet(s.cpu_ram, BitAnd(a, 2047)), FALSE>>
  ELSE IF a >= 32768 THEN <<MemGet(s.prg_ram, a - 32768), FALSE>>
  ELSE <<s.last_cpu_db_value, TRUE>>

\* cpu_write with a 1 KiB mirror mask
cpu_write_1k(s, a, d) ==
  IF a < 8192 THEN [s EXCEPT !.cpu_ram = MemSet(@, BitAnd(a, 1023), d)]
  ELSE IF a >= 32768 THEN [s EXCEPT !.prg_ram = MemSet(@, a - 32768, d)]
  ELSE s

cpu_write(s, a, d) ==
  IF a < 8192 THEN [s EXCEPT !.cpu_ram = MemSet(@, BitAnd(a, 2047), d)]
  ELSE IF a >= 32768 THEN [s EXCEPT !.prg_ram = MemSet(@, a - 32768, d)]
  ELSE s

\* get_nametable with the two mirroring modes exchanged
get_nametable_swapped(s, a) ==
  CASE s.mirroring_type = "Horizontal" -> IF BitAnd(a, 1024) > 0 THEN 1 ELSE 0
    [] s.mirroring_type = "Vertical" -> IF BitAnd(a, 2048) > 0 THEN 1 ELSE 0
    [] OTHER -> 0

get_nametable(s, a) ==
  CASE s.mirroring_type = "Horizontal" -> IF BitAnd(a, 2048) > 0 THEN 1 ELSE 0
    [] s.mirroring_type = "Vertical" -> IF BitAnd(a, 1024) > 0 THEN 1 ELSE 0
    [] s.mirroring_type = "ScreenAOnly" -> 0
    [] s.mirroring_type = "ScreenBOnly" -> 1
    [] OTHER -> -1

\* ppu_write / ppu_read: a &= 0x3fff; if a >= 0x3000 { a -= 0x1000 }
PpuReduce(a) ==
  LET m == BitAnd(a, 16383) IN IF m >= 12288 THEN m - 4096 ELSE m

\* ppu_write that always selects the first nametable
ppu_write_table0(s, a, d) ==
  IF s.aborted THEN s
  ELSE IF PpuReduce(a) < 8192 THEN [s EXCEPT !.chr_ram = MemSet(@, PpuReduce(a), d)]
  ELSE [s EXCEPT !.nametable_ram[0] = MemSet(@, BitAnd(PpuReduce(a), 1023), d)]

ppu_write(s, a, d) ==
  LET r == PpuReduce(a) IN
  IF s.aborted THEN s
  ELSE IF r < 8192 THEN [s EXCEPT !.chr_ram = MemSet(@, r, d)]
  ELSE IF get_nametable(s, r) < 0 THEN [s EXCEPT !.aborted = TRUE]
  ELSE [s EXCEPT !.nametable_ram[get_nametable(s, r)] = MemSet(@, BitAnd(r, 1023), d)]

\* ppu_read: the byte; FourScreens is unimplemented and panics (PpuReadPanics)
ppu_read(s, a) ==
  LET r == PpuReduce(a) IN
  IF r < 8192 THEN MemGet(s.chr_ram, r)
  ELSE IF get_nametable(s, r) < 0 THEN 0
  ELSE MemGet(s.nametable_ram[get_nametable(s, r)], BitAnd(r, 1023))

PpuReadPanics(s, a) == PpuReduce(a) >= 8192 /\ get_nametable(s, PpuReduce(a)) < 0
\* consts.rs PALETTE_ARGB: each u32 as <<alpha byte, low 24 bits>>
PALETTE_ARGB ==
  <<
     <<255, 6710886>>, <<255, 10888>>, <<255, 1315495>>, <<255, 3866788>>,
     <<255, 6029438>>, <<255, 7209024>>, <<255, 7079424>>, <<255, 5643520>>,
     <<255, 3355904>>, <<255, 739328>>, <<255, 20992>>, <<255, 20232>>,
     <<255, 16461>>, <<255, 0>>, <<255, 0>>, <<255, 0>>,
     <<255, 11382189>>, <<255, 1400793>>, <<255, 4342015>>, <<255, 7677950>>,
     <<255, 10492620>>, <<255, 12000891>>, <<255, 11874592>>, <<255, 10046976>>,
     <<255, 7040256>>, <<255, 3704576>>, <<255, 824064>>, <<255, 36658>>,
     <<255, 31885>>, <<255, 0>>, <<255, 0>>, <<255, 0>>,
     <<255, 16776959>>, <<255, 6598911>>, <<255, 9605375>>, <<255, 13006591>>,
     <<255, 15952639>>, <<255, 16674508>>, <<255, 16679280>>, <<255, 15375906>>,
     <<255, 12369408>>, <<255, 8968192>>, <<255, 6087728>>, <<255, 4579458>>,
     <<255, 4771294>>, <<255, 5197647>>, <<255, 0>>, <<255, 0>>,
     <<255, 16776959>>, <<255, 12640255>>, <<255, 13882111>>, <<255, 15255807>>,
     <<255, 16499455>>, <<255, 16696554>>, <<255, 16698565>>, <<255, 16242853>>,
     <<255, 15000980>>, <<255, 13627286>>, <<255, 12448939>>, <<255, 11793356>>,
     <<255, 11922418>>, <<255, 12105912>>, <<255, 0>>, <<255, 0>>
  >>
(***************************************************************************)
(* Power-on, reset, ROM load and the half-step driver.                     *)
(***************************************************************************)

\* init(true): one round of the loop, clk0 toggled from its current level
ToggleOnce(s) ==
  IF is_node_high(s, NODE_CLK0) THEN set_low(s, NODE_CLK0) ELSE set_high(s, NODE_CLK0)

RECURSIVE ToggleClock(_, _)
\* init(true): for _ in 0..=(12 * 8 * 2)
ToggleClock(s, n) ==
  IF n = 0 \/ s.aborted THEN s
  ELSE IF n = 1 THEN ToggleOnce(s)
  ELSE ToggleClock(ToggleClock(s, n \div 2), n - n \div 2)

RECURSIVE PulseClock(_, _)
\* init(false): for _ in 0..n { set_high(clk0); set_low(clk0) }
PulseClock(s, n) ==
  IF n = 0 \/ s.aborted THEN s
  ELSE IF n = 1 THEN set_low(set_high(s, NODE_CLK0), NODE_CLK0)
  ELSE PulseClock(PulseClock(s, n \div 2), n - n \div 2)

\* init: the tail shared by both branches
InitTail(s) ==
  IF s.aborted THEN s
  ELSE [s EXCEPT !.chr_address = 0, !.prev_ppu_read = TRUE,
                 !.prev_ppu_write = TRUE, !.prev_ppu_ale = FALSE]

\* init(true) with the loop bound read as exclusive: 192 toggles
SoftResetEven(s) ==
  InitTail(
    set_high(
      ToggleClock(set_low([s EXCEPT !.prev_hpos = -1], NODE_RESET), 12 * 8 * 2),
      NODE_RESET))

\* init(true)
SoftReset(s) ==
  InitTail(
    set_high(
      ToggleClock(set_low([s EXCEPT !.prev_hpos = -1], NODE_RESET), 12 * 8 * 2 + 1),
      NODE_RESET))

RECURSIVE ResetNodes(_, _, _)
\* init(false): for node in self.nodes.iter(), slots lo..hi
ResetNodes(s, lo, hi) ==
  IF s.aborted \/ lo > hi THEN s
  ELSE IF lo = hi
    THEN [s EXCEPT !.state[node_slots[lo]] = FALSE, !.floating[node_slots[lo]] = TRUE]
  ELSE ResetNodes(ResetNodes(s, lo, (lo + hi) \div 2), (lo + hi) \div 2 + 1, hi)

\* the rails left as the loop over the nodes set them
ResetRailsSkipped(s) == s

\* init(false): the two rails after the loop over the nodes
ResetRails(s) ==
  [s EXCEPT !.state[NODE_GND] = FALSE, !.floating[NODE_GND] = FALSE,
            !.state[NODE_PWR] = TRUE, !.floating[NODE_PWR] = FALSE]

RECURSIVE ResetTransistors(_, _)
\* init(false): transistors[i].on.set(transistors_initial_power_state[i])
ResetTransistors(s, i) ==
  IF i >= Len(trans_defs) THEN s
  ELSE ResetTransistors([s EXCEPT !.on[i] = transistors_initial_power_state[i]], i + 1)

\* the four nametables, all bytes zero
ZeroNametables == 0 :> ZeroMem @@ 1 :> ZeroMem @@ 2 :> ZeroMem @@ 3 :> ZeroMem

\* init(false): buffers zeroed, node and transistor state reset
PowerOnState(s) ==
  ResetTransistors(
    ResetRails(
      ResetNodes([s EXCEPT !.prev_hpos = -1,
                           !.ppu_framebuffer = ZeroMem,
                           !.cpu_ram = ZeroMem,
                           !.prg_ram = ZeroMem,
                           !.chr_ram = ZeroMem,
                           !.nametable_ram = ZeroNametables],
                 1, Len(node_slots))),
    0)

\* init(false): the pins driven before the first six clock pulses
PowerOnPins(s) ==
  set_high(set_high(set_low(set_low(s, NODE_RESET), NODE_CLK0), NODE_IO_CE), NODE_INT)

\* init(false): the CPU pins driven before every node is recalculated
PowerOnCpuPins(s) ==
  set_high(set_high(set_low(s, NODE_CPU_SO), NODE_CPU_IRQ), NODE_CPU_NMI)

\* init(false)
PowerOn(s) ==
  InitTail(
    set_high(
      PulseClock(
        recalc_node_list(
          PowerOnCpuPins(PulseClock(PowerOnPins(PowerOnState(s)), 6)),
          all_recalc_nodes),
        12 * 8),
      NODE_RESET))

init(s, soft_reset) ==
  IF s.aborted THEN s
  ELSE IF soft_reset THEN SoftReset(s) ELSE PowerOn(s)

\* set_memory_state(PrgRam / ChrRam): copy_from_slice panics on a length mismatch
set_memory_state(s, memory_type, buffer) ==
  IF s.aborted THEN s
  ELSE IF memory_type = "PrgRam"
    THEN IF buffer.len = 32768 THEN [s EXCEPT !.prg_ram = buffer.bytes]
                               ELSE [s EXCEPT !.aborted = TRUE]
  ELSE IF memory_type = "ChrRam"
    THEN IF buffer.len = 8192 THEN [s EXCEPT !.chr_ram = buffer.bytes]
                              ELSE [s EXCEPT !.aborted = TRUE]
  ELSE s

\* a 16 KiB image padded with zeros in place of its copy
ExtendPrgNone(prg) == [len |-> 32768, bytes |-> prg.bytes]

\* load_rom: prg.extend_from_slice(&rom.prg) for a 16 KiB image
ExtendPrg(prg) ==
  IF prg.len = 16384
    THEN [len   |-> 32768,
          bytes |-> [i \in DOMAIN prg.bytes \cup {j + 16384 : j \in DOMAIN prg.bytes} |->
                       IF i < 16384 THEN prg.bytes[i] ELSE prg.bytes[i - 16384]]]
    ELSE prg

\* load_rom that stores the mirroring mode before it rejects one
load_rom_early_mirror(s, rom) ==
  IF s.aborted THEN s
  ELSE IF ~rom.valid THEN [s EXCEPT !.aborted = TRUE]
  ELSE IF rom.mapper # 0 THEN [s EXCEPT !.aborted = TRUE]
  ELSE IF rom.mirroring \notin {"Horizontal", "Vertical"}
    THEN [s EXCEPT !.mirroring_type = rom.mirroring, !.aborted = TRUE]
  ELSE set_memory_state(
         set_memory_state(init([s EXCEPT !.mirroring_type = rom.mirroring], FALSE),
                          "ChrRam", rom.chr),
         "PrgRam", ExtendPrg(rom.prg))

load_rom(s, rom) ==
  IF s.aborted THEN s
  ELSE IF ~rom.valid THEN [s EXCEPT !.aborted = TRUE]
  ELSE IF rom.mapper # 0 THEN [s EXCEPT !.aborted = TRUE]
  ELSE IF rom.mirroring \notin {"Horizontal", "Vertical"} THEN [s EXCEPT !.aborted = TRUE]
  ELSE set_memory_state(
         set_memory_state(init([s EXCEPT !.mirroring_type = rom.mirroring], FALSE),
                          "ChrRam", rom.chr),
         "PrgRam", ExtendPrg(rom.prg))

read_ppu_address_bus(s) ==
  IF is_node_high(s, NODE_ALE) THEN [s EXCEPT !.last_address = read_ab(s)] ELSE s

read_ppu_data_bus(s) ==
  IF ~is_node_high(s, NODE_RD) \/ ~is_node_high(s, NODE_WR)
    THEN [s EXCEPT !.last_data = read_db(s)]
    ELSE s

\* handle_chr_bus: self.chr_address = self.read_ppu_address_bus()
LatchChrAddress(r) == [r EXCEPT !.chr_address = r.last_address]

\* handle_chr_bus: "rising edge of ALE"
ChrAle(s, ale) ==
  IF s.prev_ppu_ale /\ ale THEN LatchChrAddress(read_ppu_address_bus(s)) ELSE s

\* the read strobe acting on the level of /RD, not on its falling edge
ChrReadLevel(s, rd) ==
  IF ~rd
    THEN IF PpuReadPanics(s, s.chr_address)
           THEN [s EXCEPT !.aborted = TRUE]
           ELSE write_db(s, ppu_read(s, s.chr_address))
    ELSE s

\* handle_chr_bus: falling edge of /RD, the byte read is put on the bus
ChrRead(s, rd) ==
  IF s.prev_ppu_read /\ ~rd
    THEN IF PpuReadPanics(s, s.chr_address)
           THEN [s EXCEPT !.aborted = TRUE]
           ELSE write_db(s, ppu_read(s, s.chr_address))
    ELSE s

\* handle_chr_bus: rising edge of /RD, the data bus floats
ChrFloat(s, rd) ==
  IF ~s.aborted /\ ~s.prev_ppu_read /\ rd THEN float_db(s) ELSE s

\* handle_chr_bus: self.ppu_write(self.chr_address, ppu_data_bus_val)
StoreLastData(r) == ppu_write(r, r.chr_address, r.last_data)

\* handle_chr_bus: rising edge of /WR, the bus byte is stored
ChrWrite(s, wr) ==
  IF ~s.aborted /\ ~s.prev_ppu_write /\ wr
    THEN StoreLastData(read_ppu_data_bus(s))
    ELSE s

\* handle_chr_bus: the closing bus sample and the three prev_ flags
ChrEnd(s, ale, rd, wr) ==
  IF s.aborted THEN s
  ELSE [read_ppu_data_bus(s) EXCEPT
          !.prev_ppu_ale = ale, !.prev_ppu_read = rd, !.prev_ppu_write = wr]

handle_chr_bus(s) ==
  IF s.aborted THEN s
  ELSE ChrEnd(ChrWrite(ChrFloat(ChrRead(ChrAle(s, is_node_high(s, NODE_ALE)),
                                        is_node_high(s, NODE_RD)),
                                is_node_high(s, NODE_RD)),
                       is_node_high(s, NODE_WR)),
              is_node_high(s, NODE_ALE), is_node_high(s, NODE_RD),
              is_node_high(s, NODE_WR))

handle_cpu_bus_read(s) ==
  IF s.aborted THEN s
  ELSE IF is_node_high(s, NODE_CPU_RW)
    THEN LET r == cpu_read(s, read_cpu_address_bus(s))
         IN  IF r[2] THEN float_cpu_db(s) ELSE write_cpu_db(s, r[1])
    ELSE s

handle_cpu_bus_write(s) ==
  IF s.aborted THEN s
  ELSE IF ~is_node_high(s, NODE_CPU_RW)
    THEN cpu_write([s EXCEPT !.db_sampled = read_cpu_data_bus(s)],
                   read_cpu_address_bus(s), read_cpu_data_bus(s))
    ELSE s

\* half_step: step_cycle_count = 11 once io_ce is low
ArmCycleCount(a) == IF a.aborted THEN a ELSE [a EXCEPT !.step_cycle_count = 11]

\* the decoder testing its trigger again in the half step that releases io_ce
IoCeDecoderRefires(s) ==
  IF s.aborted THEN s
  ELSE IF s.step_cycle_count > 1 THEN [s EXCEPT !.step_cycle_count = @ - 1]
  ELSE IF /\ is_node_high(s, NODE_CPU_AB13)
          /\ ~is_node_high(s, NODE_CPU_AB14)
          /\ ~is_node_high(s, NODE_CPU_AB15)
          /\ is_node_high(s, NODE_CPU_CLK0)
    THEN ArmCycleCount(set_low(s, NODE_IO_CE))
  ELSE IF s.step_cycle_count = 1
    THEN set_high([s EXCEPT !.step_cycle_count = 0], NODE_IO_CE)
  ELSE s

\* half_step: the 74139 decoder driving io_ce
IoCeDecoder(s) ==
  IF s.aborted THEN s
  ELSE IF s.step_cycle_count > 0
    THEN IF s.step_cycle_count = 1
           THEN set_high([s EXCEPT !.step_cycle_count = 0], NODE_IO_CE)
           ELSE [s EXCEPT !.step_cycle_count = @ - 1]
  ELSE IF /\ is_node_high(s, NODE_CPU_AB13)
          /\ ~is_node_high(s, NODE_CPU_AB14)
          /\ ~is_node_high(s, NODE_CPU_AB15)
          /\ is_node_high(s, NODE_CPU_CLK0)
    THEN ArmCycleCount(set_low(s, NODE_IO_CE))
  ELSE s

\* the pixel sampler without the test against the cached hpos
VideoSampleUncached(s) ==
  IF s.aborted THEN s
  ELSE IF read_bit(s, NODE_PCLK1) > 0
    THEN LET hpos == read_hpos(s) - 2
             vpos == read_vpos(s)
         IN  [(IF hpos >= 0 /\ hpos < 256 /\ vpos < 240
                 THEN [s EXCEPT !.ppu_framebuffer =
                         (BitOr(vpos * 256, hpos)
                            :> At0(PALETTE_ARGB, ReadBits(s, PalOutBus, 1))) @@ @]
                 ELSE s)
              EXCEPT !.prev_hpos = hpos]
    ELSE s

\* half_step: the pixel sampler
VideoSample(s) ==
  IF s.aborted THEN s
  ELSE IF read_bit(s, NODE_PCLK1) > 0
    THEN LET hpos == read_hpos(s) - 2
             vpos == read_vpos(s)
         IN  IF hpos # s.prev_hpos
               THEN [(IF hpos >= 0 /\ hpos < 256 /\ vpos < 240
                        THEN [s EXCEPT !.ppu_framebuffer =
                                (BitOr(vpos * 256, hpos)
                                   :> At0(PALETTE_ARGB, ReadBits(s, PalOutBus, 1))) @@ @]
                        ELSE s)
                     EXCEPT !.prev_hpos = hpos]
               ELSE s
    ELSE s

\* the CPU bus handlers chosen by the level of cpu_clk0 at entry, edge or not
CpuBusLevel(c, cpu_clk0) ==
  IF ~c.aborted
    THEN IF cpu_clk0 THEN handle_cpu_bus_read(c) ELSE handle_cpu_bus_write(c)
    ELSE c

\* half_step: the CPU bus handlers, on a change of cpu_clk0 from its level
\* at entry
CpuBus(c, cpu_clk0) ==
  IF ~c.aborted /\ cpu_clk0 # is_node_high(c, NODE_CPU_CLK0)
    THEN IF cpu_clk0 THEN handle_cpu_bus_read(c) ELSE handle_cpu_bus_write(c)
    ELSE c

\* the master clock always driven high
ToggleClk0AlwaysHigh(s) == set_high(s, NODE_CLK0)

\* half_step: clk0 toggled from its level at entry
ToggleClk0(s) ==
  IF is_node_high(s, NODE_CLK0) THEN set_low(s, NODE_CLK0) ELSE set_high(s, NODE_CLK0)

half_step(s) ==
  IF s.aborted THEN s
  ELSE VideoSample(CpuBus(handle_chr_bus(IoCeDecoder(ToggleClk0(s))),
                          is_node_high(s, NODE_CPU_CLK0)))
(***************************************************************************)
(* The state machine.                                                      *)
(***************************************************************************)

\* The simulator's fields as one record, for the operators above.
Sim ==
  [state |-> state, pullup |-> pullup, pulldown |-> pulldown, floating |-> floating,
   on |-> on, has_ground |-> has_ground, has_power |-> has_power, group |-> group,
   processed_nodes |-> processed_nodes, lists |-> lists, indices |-> indices,
   step_cycle_count |-> step_cycle_count, prev_ppu_ale |-> prev_ppu_ale,
   prev_ppu_write |-> prev_ppu_write, prev_ppu_read |-> prev_ppu_read,
   chr_address |-> chr_address, last_address |-> last_address,
   mirroring_type |-> mirroring_type, chr_ram |-> chr_ram,
   nametable_ram |-> nametable_ram, cpu_ram |-> cpu_ram, prg_ram |-> prg_ram,
   last_cpu_db_value |-> last_cpu_db_value, last_data |-> last_data,
   prev_hpos |-> prev_hpos, ppu_framebuffer |-> ppu_framebuffer,
   aborted |-> aborted, iter_count |-> iter_count, db_sampled |-> db_sampled,
   pc |-> pc]

Commit(r) ==
  /\ state' = r.state /\ pullup' = r.pullup /\ pulldown' = r.pulldown
  /\ floating' = r.floating /\ on' = r.on
  /\ has_ground' = r.has_ground /\ has_power' = r.has_power /\ group' = r.group
  /\ processed_nodes' = r.processed_nodes /\ lists' = r.lists /\ indices' = r.indices
  /\ step_cycle_count' = r.step_cycle_count /\ prev_ppu_ale' = r.prev_ppu_ale
  /\ prev_ppu_write' = r.prev_ppu_write /\ prev_ppu_read' = r.prev_ppu_read
  /\ chr_address' = r.chr_address /\ last_address' = r.last_address
  /\ mirroring_type' = r.mirroring_type /\ chr_ram' = r.chr_ram
  /\ nametable_ram' = r.nametable_ram /\ cpu_ram' = r.cpu_ram /\ prg_ram' = r.prg_ram
  /\ last_cpu_db_value' = r.last_cpu_db_value /\ last_data' = r.last_data
  /\ prev_hpos' = r.prev_hpos /\ ppu_framebuffer' = r.ppu_framebuffer
  /\ aborted' = r.aborted /\ iter_count' = r.iter_count /\ db_sampled' = r.db_sampled
  /\ pc' = r.pc
  /\ set' = set

StartIn(r) ==
  /\ state = r.state /\ pullup = r.pullup /\ pulldown = r.pulldown
  /\ floating = r.floating /\ on = r.on
  /\ has_ground = r.has_ground /\ has_power = r.has_power /\ group = r.group
  /\ processed_nodes = r.processed_nodes /\ lists = r.lists /\ indices = r.indices
  /\ step_cycle_count = r.step_cycle_count /\ prev_ppu_ale = r.prev_ppu_ale
  /\ prev_ppu_write = r.prev_ppu_write /\ prev_ppu_read = r.prev_ppu_read
  /\ chr_address = r.chr_address /\ last_address = r.last_address
  /\ mirroring_type = r.mirroring_type /\ chr_ram = r.chr_ram
  /\ nametable_ram = r.nametable_ram /\ cpu_ram = r.cpu_ram /\ prg_ram = r.prg_ram
  /\ last_cpu_db_value = r.last_cpu_db_value /\ last_data = r.last_data
  /\ prev_hpos = r.prev_hpos /\ ppu_framebuffer = r.ppu_framebuffer
  /\ aborted = r.aborted /\ iter_count = r.iter_count /\ db_sampled = r.db_sampled
  /\ pc = r.pc

\* SimulationState::new
NewSim ==
  [state |-> [n \in NodeIds |-> node_defs[n].state],
   pullup |-> [n \in NodeIds |-> node_defs[n].pullup],
   pulldown |-> [n \in NodeIds |-> FALSE],
   floating |-> [n \in NodeIds |-> TRUE],
   on |-> [i \in TransIds |-> FALSE],
   has_ground |-> FALSE, has_power |-> FALSE, group |-> <<>>,
   processed_nodes |-> [n \in NodeIds |-> FALSE],
   lists |-> [i \in {0, 1} |-> <<>>], indices |-> <<0, 1>>,
   step_cycle_count |-> 0, prev_ppu_ale |-> FALSE,
   prev_ppu_write |-> TRUE, prev_ppu_read |-> TRUE,
   chr_address |-> 0, last_address |-> 0,
   mirroring_type |-> "Horizontal", chr_ram |-> ZeroMem,
   nametable_ram |-> ZeroNametables, cpu_ram |-> ZeroMem, prg_ram |-> ZeroMem,
   last_cpu_db_value |-> 0, last_data |-> 0,
   prev_hpos |-> -1, ppu_framebuffer |-> ZeroMem,
   aborted |-> FALSE, iter_count |-> 0, db_sampled |-> 0, pc |-> "idle"]

\* Fixed point: every node but the rails has the level the resolver gives
\* the group collected from it.
ResolvedValue(s, n) == NodeValue(ClearRailsIfWeak(get_node_group(s, n)))

Settled(s) == \A n \in NodeIds \ {NODE_GND, NODE_PWR} : s.state[n] = ResolvedValue(s, n)

MaxOps == 3

\* Nodes the environment drives with set_high / set_low.
DrivePins ==
  {NODE_CPU_RW, NODE_CPU_AB13, NODE_CPU_AB15, NODE_CPU_DB0, NODE_CPU_SO, 3003, 3004}

ByteSamples == {1, 2}

LatchPairs == {<<6001, 6002>>, <<6002, 6001>>, <<-1, 6001>>}

Roms ==
  { [valid |-> TRUE, mapper |-> 0, mirroring |-> "Vertical",
     prg |-> [len |-> 16384, bytes |-> [i \in {0} |-> 169]],
     chr |-> [len |-> 8192, bytes |-> [i \in {0} |-> 17]]],
    [valid |-> TRUE, mapper |-> 1, mirroring |-> "Horizontal",
     prg |-> [len |-> 32768, bytes |-> [i \in {0} |-> 169]],
     chr |-> [len |-> 8192, bytes |-> [i \in {0} |-> 17]]] }

Op(name, arg) ==
  [name |-> name, arg |-> arg, pre_settled |-> Settled(Sim)]

Init ==
  /\ StartIn(NewSim)
  /\ set = <<>>
  /\ last_op = [name |-> "new", arg |-> <<>>, pre_settled |-> FALSE]
  /\ ops = 0

Step(r, name, arg) ==
  /\ ~aborted
  /\ pc = "idle"
  /\ ops < MaxOps
  /\ \E result \in {r} : Commit(result)
  /\ last_op' = Op(name, arg)
  /\ ops' = ops + 1

DoInit(soft_reset) == Step(init(Sim, soft_reset), "init", <<soft_reset>>)

DoLoadRom(rom) == Step(load_rom(Sim, rom), "load_rom", <<rom>>)

DoHalfStep == Step(half_step(Sim), "half_step", <<>>)

DoSetHigh(n) == Step(set_high(Sim, n), "set_high", <<n, state[n]>>)

DoSetLow(n) == Step(set_low(Sim, n), "set_low", <<n, state[n]>>)

DoWriteByte(nodes, val) == Step(write_byte(Sim, nodes, val), "write_byte", <<nodes, val>>)

DoFloatByte(nodes) == Step(float_byte(Sim, nodes), "float_byte", <<nodes>>)

DoSetBit(n1, n2) == Step(set_bit(Sim, n1, n2), "set_bit", <<n1, n2>>)

Next ==
  \/ \E soft_reset \in BOOLEAN : DoInit(soft_reset)
  \/ \E rom \in Roms : DoLoadRom(rom)
  \/ DoHalfStep
  \/ \E n \in DrivePins : DoSetHigh(n)
  \/ \E n \in DrivePins : DoSetLow(n)
  \/ \E val \in ByteSamples : DoWriteByte(CpuDataBus, val)
  \/ DoFloatByte(CpuDataBus)
  \/ \E p \in LatchPairs : DoSetBit(p[1], p[2])

Spec == Init /\ [][Next]_vars

(***************************************************************************)
(* The relaxation driver one round at a time: set_high / set_low enter the *)
(* loop of recalc_node_list, and every round of the loop is a step.        *)
(***************************************************************************)

\* Nodes driven in the round-by-round specification.
RelaxPins == {NODE_CPU_SO, NODE_CPU_DB0, 3003}

EnterRelax(r, name, arg) ==
  /\ ~aborted
  /\ pc = "idle"
  /\ ops < MaxOps
  /\ \E result \in {r} : Commit(result)
  /\ last_op' = Op(name, arg)
  /\ ops' = ops + 1

BeginSetHigh(n) ==
  EnterRelax(RelaxEnter(PullHigh(Sim, n), <<n>>), "set_high", <<n, state[n]>>)

BeginSetLow(n) ==
  EnterRelax(RelaxEnter(PullLow(Sim, n), <<n>>), "set_low", <<n, state[n]>>)

RelaxRound ==
  /\ pc = "loop"
  /\ \E result \in {RelaxIter(Sim)} : Commit(result)
  /\ UNCHANGED <<last_op, ops>>

NextRelax ==
  \/ DoInit(FALSE)
  \/ \E n \in RelaxPins : BeginSetHigh(n)
  \/ \E n \in RelaxPins : BeginSetLow(n)
  \/ RelaxRound

SpecRelax == Init /\ [][NextRelax]_vars

(***************************************************************************)
(* The CPU memory map on its own: cpu_write applied to sample addresses.   *)
(***************************************************************************)

\* Sample CPU addresses: both ends of RAM, of each mirror, of the open-bus
\* range and of program RAM.
MemAddrs == {0, 2047, 2048, 6143, 8191, 8192, 32767, 32768, 65535}

MemBytes == {0, 1, 255}

MaxMemOps == 2

DoCpuWrite(a, d) ==
  /\ ops < MaxMemOps
  /\ Step(cpu_write(Sim, a, d), "cpu_write", <<a, d>>)

NextMem == \E a \in MemAddrs, d \in MemBytes : DoCpuWrite(a, d)

SpecMem == Init /\ [][NextMem]_vars


(***************************************************************************)
(* The PPU memory map on its own: ppu_write applied to sample addresses,   *)
(* under the mirroring mode that new or load_rom left.                     *)
(***************************************************************************)

\* Sample PPU addresses: both ends of pattern memory, the first cell of
\* three nametables, the end of nametable space, its mirror at 0x3000 and
\* addresses above 14 bits.
PpuAddrs == {0, 8191, 8192, 9216, 10240, 12287, 12288, 13312, 16383, 16384, 65535}

MaxPpuOps == 3

\* Images with each supported mirroring mode.
PpuRoms ==
  { [valid |-> TRUE, mapper |-> 0, mirroring |-> m,
     prg |-> [len |-> 32768, bytes |-> [i \in {0} |-> 169]],
     chr |-> [len |-> 8192, bytes |-> [i \in {0} |-> 17]]] :
    m \in {"Horizontal", "Vertical"} }

DoPpuWrite(a, d) ==
  /\ ops < MaxPpuOps
  /\ Step(ppu_write(Sim, a, d), "ppu_write", <<a, d>>)

NextPpu ==
  \/ \E rom \in PpuRoms : ops < 1 /\ DoLoadRom(rom)
  \/ \E a \in PpuAddrs, d \in MemBytes : DoPpuWrite(a, d)

SpecPpu == Init /\ [][NextPpu]_vars

(***************************************************************************)
(* Loading images into a simulator whose memories have been written.       *)
(***************************************************************************)

\* Images: 16 KiB and 32 KiB program ROM with each supported mirroring, an
\* unsupported mapper, an unsupported mirroring mode and a program ROM of
\* three 16 KiB banks.
RomImages ==
  { [valid |-> TRUE, mapper |-> 0, mirroring |-> "Vertical",
     prg |-> [len |-> 16384, bytes |-> (0 :> 169 @@ 16383 :> 96)],
     chr |-> [len |-> 8192, bytes |-> (0 :> 17 @@ 8191 :> 3)]],
    [valid |-> TRUE, mapper |-> 0, mirroring |-> "Horizontal",
     prg |-> [len |-> 32768, bytes |-> (0 :> 169 @@ 16384 :> 76 @@ 32767 :> 1)],
     chr |-> [len |-> 8192, bytes |-> (1 :> 17)]],
    [valid |-> TRUE, mapper |-> 1, mirroring |-> "Vertical",
     prg |-> [len |-> 16384, bytes |-> (0 :> 169)],
     chr |-> [len |-> 8192, bytes |-> (0 :> 17)]],
    [valid |-> TRUE, mapper |-> 0, mirroring |-> "FourScreens",
     prg |-> [len |-> 16384, bytes |-> (0 :> 169)],
     chr |-> [len |-> 8192, bytes |-> (0 :> 17)]],
    [valid |-> TRUE, mapper |-> 0, mirroring |-> "Horizontal",
     prg |-> [len |-> 49152, bytes |-> (0 :> 169)],
     chr |-> [len |-> 8192, bytes |-> (0 :> 17)]] }

\* Writes that dirty each memory before an image is loaded.
RomCpuAddrs == {1, 32769}

RomPpuAddrs == {1, 8193}

NextRom ==
  \/ \E rom \in RomImages : DoLoadRom(rom)
  \/ \E a \in RomCpuAddrs : Step(cpu_write(Sim, a, 7), "cpu_write", <<a, 7>>)
  \/ \E a \in RomPpuAddrs : Step(ppu_write(Sim, a, 7), "ppu_write", <<a, 7>>)
  \/ DoHalfStep

SpecRom == Init /\ [][NextRom]_vars

(***************************************************************************)
(* Latch writes: set_bit and the palette / sprite RAM writers built on it. *)
(***************************************************************************)

\* Bytes with each of the low bits and the top bit set and clear.
LatchBytes == {0, 1, 2, 5, 8, 128, 255}

DoPaletteWrite(addr, val) ==
  Step(palette_write(Sim, addr, val), "palette_write", <<addr, val>>)

DoSpriteWrite(addr, val) ==
  Step(sprite_write(Sim, addr, val), "sprite_write", <<addr, val>>)

NextLatch ==
  \/ DoInit(FALSE)
  \/ \E pair \in LatchPairs \cup {<<6001, -1>>, <<-1, -1>>} : DoSetBit(pair[1], pair[2])
  \/ \E addr \in 0..(Len(palette_nodes) - 1), val \in LatchBytes : DoPaletteWrite(addr, val)
  \/ \E addr \in 0..(Len(sprite_nodes) - 1), val \in LatchBytes : DoSpriteWrite(addr, val)

SpecLatch == Init /\ [][NextLatch]_vars

(***************************************************************************)
(* Histories before a power-on: half steps, bus writes and floats, latch   *)
(* writes and soft resets, with power-on at any point.                     *)
(***************************************************************************)

NextHistory ==
  \/ \E soft_reset \in BOOLEAN : DoInit(soft_reset)
  \/ DoHalfStep
  \/ \E val \in ByteSamples : DoWriteByte(CpuDataBus, val)
  \/ DoFloatByte(CpuDataBus)
  \/ \E p \in LatchPairs : DoSetBit(p[1], p[2])

SpecHistory == Init /\ [][NextHistory]_vars

(***************************************************************************)
(* ProcessedNodesSet, the bit vector of processed_nodes_map.rs.  It stands *)
(* alone: the simulator keeps its queued flags in a vector of booleans.    *)
(***************************************************************************)

\* ProcessedNodesSet::new: (node_count / 8) + (1 if node_count % 8 != 0) zero bytes
pns_new(node_count) ==
  [k \in 1..((node_count \div 8) + (IF node_count % 8 # 0 THEN 1 ELSE 0)) |-> 0]

\* the struct with its panic flag, for the operators below
PS == [set |-> set, aborted |-> aborted]

\* contains: set[node_number / 8] & (1 << (node_number % 8)) > 0
pns_contains(bytes, node_number) ==
  BitAnd(At0(bytes, node_number \div 8), Pow2(node_number % 8)) > 0

\* set: set[byte_index] = byte | mask; the index panics past the last byte
pns_set(ps, node_number) ==
  IF ps.aborted THEN ps
  ELSE IF node_number \div 8 >= Len(ps.set) THEN [ps EXCEPT !.aborted = TRUE]
  ELSE [ps EXCEPT !.set[(node_number \div 8) + 1] = BitOr(@, Pow2(node_number % 8))]

RECURSIVE pns_clear_byte(_, _, _)
\* clear with every bit of the byte dropped
pns_clear_byte(ps, nodes, i) ==
  IF ps.aborted \/ i > Len(nodes) THEN ps
  ELSE IF nodes[i] \div 8 >= Len(ps.set) THEN [ps EXCEPT !.aborted = TRUE]
  ELSE pns_clear_byte([ps EXCEPT !.set[(nodes[i] \div 8) + 1] = 0], nodes, i + 1)

RECURSIVE pns_clear_from(_, _, _)
\* clear: for each id of the slice, set[byte_index] = byte & !(byte & mask)
\* on u8; the index panics past the last byte, the earlier ids stay cleared
pns_clear_from(ps, nodes, i) ==
  IF ps.aborted \/ i > Len(nodes) THEN ps
  ELSE IF nodes[i] \div 8 >= Len(ps.set) THEN [ps EXCEPT !.aborted = TRUE]
  ELSE pns_clear_from(
         [ps EXCEPT !.set[(nodes[i] \div 8) + 1] =
                      BitAnd(@, 255 - BitAnd(@, Pow2(nodes[i] % 8)))],
         nodes, i + 1)

pns_clear(ps, nodes) == pns_clear_from(ps, nodes, 1)

\* node counts on and off a byte boundary
SetCounts == {0, 8, 9, 17, 20}

\* ids in the first three bytes, and one past them
SetIds == {0, 1, 2, 7, 8, 9, 16, 19, 23, 24}

ClearLists == {<<>>, <<1>>, <<0, 8>>, <<1, 2, 9>>, <<9, 9>>, <<7, 40>>}

MaxSetOps == 4

InitSet ==
  /\ StartIn(NewSim)
  /\ \E node_count \in SetCounts :
       /\ set = pns_new(node_count)
       /\ last_op = [name |-> "new", arg |-> <<node_count>>, pre_settled |-> FALSE]
  /\ ops = 0

StepSet(r, name, arg) ==
  /\ ~aborted
  /\ ops < MaxSetOps
  /\ set' = r.set
  /\ aborted' = r.aborted
  /\ last_op' = Op(name, arg)
  /\ ops' = ops + 1
  /\ UNCHANGED << state, pullup, pulldown, floating, on, has_ground, has_power, group,
                  processed_nodes, lists, indices, step_cycle_count, prev_ppu_ale,
                  prev_ppu_write, prev_ppu_read, chr_address, last_address,
                  mirroring_type, chr_ram, nametable_ram, cpu_ram, prg_ram,
                  last_cpu_db_value, last_data, prev_hpos, ppu_framebuffer,
                  iter_count, db_sampled, pc >>

DoSet(node_number) == StepSet(pns_set(PS, node_number), "set", <<node_number>>)

DoClear(nodes) == StepSet(pns_clear(PS, nodes), "clear", <<nodes>>)

NextSet ==
  \/ \E node_number \in SetIds : DoSet(node_number)
  \/ \E nodes \in ClearLists : DoClear(nodes)

SpecSet == InitSet /\ [][NextSet]_vars

(***************************************************************************)
(* The group collector and the resolver on their own: get_node_group from  *)
(* a seed, then get_node_value on the group it left, over the ring of      *)
(* nets 359, 566, 3006 with any of its transistors conducting.             *)
(***************************************************************************)

RingNodes == {359, 566, 3006}

\* the transistors of the ring and of its ties to the rails
RingTrans == {i \in TransIds : transistors[i].gate \in 3007..3013}

\* nodes[n].pullup / pulldown as set_high, set_low or neither left them
PullKinds == {"none", "up", "down"}

MaxGroupOps == 2

InitGroup ==
  /\ \E conducting \in SUBSET RingTrans, high \in SUBSET RingNodes,
        pulls \in [{359, 3006} -> PullKinds] :
       StartIn([NewSim EXCEPT
                  !.on = [i \in TransIds |-> i \in conducting],
                  !.state = [n \in NodeIds |->
                               \/ n \in high
                               \/ \E i \in conducting : transistors[i].gate = n],
                  !.pullup = [n \in NodeIds |->
                                n \in DOMAIN pulls /\ pulls[n] = "up"],
                  !.pulldown = [n \in NodeIds |->
                                  n \in DOMAIN pulls /\ pulls[n] = "down"]])
  /\ set = <<>>
  /\ last_op = [name |-> "new", arg |-> <<>>, pre_settled |-> FALSE]
  /\ ops = 0

DoGetNodeGroup(n) ==
  /\ ops < MaxGroupOps
  /\ Step(get_node_group(Sim, n), "get_node_group", <<n>>)

\* recalc_node_list calls get_node_value on the group get_node_group just left
DoGetNodeValue ==
  /\ ops < MaxGroupOps
  /\ last_op.name = "get_node_group"
  /\ Step(ClearRailsIfWeak(Sim), "get_node_value", <<get_node_value(Sim)>>)

NextGroup ==
  \/ \E n \in RingNodes : DoGetNodeGroup(n)
  \/ DoGetNodeValue

SpecGroup == InitGroup /\ [][NextGroup]_vars

(***************************************************************************)
(* The half-step driver over many half steps: the cpu address pins the     *)
(* io_ce decoder looks at driven during the first operations, then half    *)
(* steps, with a power-on (as load_rom runs it) at any point.              *)
(***************************************************************************)

\* the address pins the decoder reads that the environment drives
DecoderPins == {NODE_CPU_AB13, NODE_CPU_AB15}

\* operations during which the pins may still be driven
MaxSetupOps == 3

\* enough half steps for a full countdown of the decoder after the set-up
MaxClockOps == 17

StepClock(r, name, arg) ==
  /\ ~aborted
  /\ pc = "idle"
  /\ ops < MaxClockOps
  /\ \E result \in {r} : Commit(result)
  /\ last_op' = Op(name, arg)
  /\ ops' = ops + 1

NextClock ==
  \/ StepClock(init(Sim, FALSE), "init", <<FALSE>>)
  \/ \E n \in DecoderPins :
       ops < MaxSetupOps /\ StepClock(set_high(Sim, n), "set_high", <<n, state[n]>>)
  \/ \E n \in DecoderPins :
       ops < MaxSetupOps /\ StepClock(set_low(Sim, n), "set_low", <<n, state[n]>>)
  \/ StepClock(half_step(Sim), "half_step", <<>>)

SpecClock == Init /\ [][NextClock]_vars

(***************************************************************************)
(* The cartridge (PPU) bus: the strobes ale, rd and wr and the lowest      *)
(* address / data line change between half steps, as the PPU drives them.  *)
(***************************************************************************)

\* the strobes of the cartridge bus
Strobes == {NODE_ALE, NODE_RD, NODE_WR}

MaxChrOps == 6

StepChr(r, name, arg) ==
  /\ ~aborted
  /\ pc = "idle"
  /\ ops < MaxChrOps
  /\ \E result \in {r} : Commit(result)
  /\ last_op' = Op(name, arg)
  /\ ops' = ops + 1

NextChr ==
  \/ ops = 0 /\ StepChr(init(Sim, FALSE), "init", <<FALSE>>)
  \/ \E rom \in PpuRoms : ops = 0 /\ StepChr(load_rom(Sim, rom), "load_rom", <<rom>>)
  \/ \E n \in Strobes \cup {NODE_AB0} :
       StepChr(set_high(Sim, n), "set_high", <<n, state[n]>>)
  \/ \E n \in Strobes : StepChr(set_low(Sim, n), "set_low", <<n, state[n]>>)
  \/ StepChr(half_step(Sim), "half_step", <<>>)

SpecChr == Init /\ [][NextChr]_vars

\* the pins a CPU would drive in a bus cycle: R/W, two address lines that
\* choose between RAM, PRG and the unmapped range, and data line 0
CpuPins == {NODE_CPU_RW, NODE_CPU_AB13, NODE_CPU_AB15, NODE_CPU_DB0}

MaxCpuOps == 6

StepCpu(r, name, arg) ==
  /\ ~aborted /\ pc = "idle" /\ ops < MaxCpuOps
  /\ \E result \in {r} : Commit(result)
  /\ last_op' = Op(name, arg)
  /\ ops' = ops + 1

NextCpu ==
  \/ ops = 0 /\ StepCpu(init(Sim, FALSE), "init", <<FALSE>>)
  \/ \E rom \in Roms : ops = 0 /\ StepCpu(load_rom(Sim, rom), "load_rom", <<rom>>)
  \/ \E n \in CpuPins : StepCpu(set_high(Sim, n), "set_high", <<n, state[n]>>)
  \/ \E n \in CpuPins : StepCpu(set_low(Sim, n), "set_low", <<n, state[n]>>)
  \/ StepCpu(half_step(Sim), "half_step", <<>>)

SpecCpu == Init /\ [][NextCpu]_vars

\* the pins of the pixel sampler driven between half steps: the pixel
\* clock, the horizontal counter bits worth 1, 2, 4 and 256, the vertical
\* counter bits worth 1 and 256, and palette output bit 1
VideoPins ==
  {NODE_PCLK1, NODE_HPOS0, NODE_HPOS1, NODE_HPOS2, NODE_HPOS8,
   NODE_VPOS0, NODE_VPOS8, NODE_PAL_D1_OUT}

MaxVideoOps == 6

StepVideo(r, name, arg) ==
  /\ ~aborted /\ pc = "idle" /\ ops < MaxVideoOps
  /\ \E result \in {r} : Commit(result)
  /\ last_op' = Op(name, arg)
  /\ ops' = ops + 1

NextVideo ==
  \/ ops = 0 /\ StepVideo(init(Sim, FALSE), "init", <<FALSE>>)
  \/ \E n \in VideoPins : StepVideo(set_high(Sim, n), "set_high", <<n, state[n]>>)
  \/ \E n \in {NODE_PCLK1, NODE_HPOS1} : StepVideo(set_low(Sim, n), "set_low", <<n, state[n]>>)
  \/ StepVideo(half_step(Sim), "half_step", <<>>)

SpecVideo == Init /\ [][NextVideo]_vars

(***************************************************************************)
(* The network build on its own: setup_transistors applied to sample       *)
(* transistor definitions, setup_nodes to sample segment tables, and       *)
(* turn_transistor_on to the transistors of the ring.                      *)
(***************************************************************************)

\* sample transistor definitions: every pairing of the rails and two nets
BuildDefs ==
  [gate : {3007}, c1 : {NODE_GND, NODE_PWR, 359, 566},
   c2 : {NODE_GND, NODE_PWR, 359, 566}]

\* sample outlines, as the x, y fields of a segment record: a 2-by-1
\* rectangle at the origin, a unit square at (1, 2), that square walked the
\* other way round, and a triangle
Outlines ==
  { <<0, 0, 2, 0, 2, 1, 0, 1>>,
    <<1, 2, 2, 2, 2, 3, 1, 3>>,
    <<1, 2, 1, 3, 2, 3, 2, 2>>,
    <<0, 0, 3, 0, 0, 2>> }

\* sample segment records: id, pullup, layer, then an outline
SegRecords ==
  { <<id, pu, layer>> \o xy :
      id \in {NODE_GND, 359, 566}, pu \in {0, 1}, layer \in {0, 1}, xy \in Outlines }

\* sample segment tables: one or two records
SegTables ==
  { <<r>> : r \in SegRecords } \cup { <<r1, r2>> : r1 \in SegRecords, r2 \in SegRecords }

MaxBuildOps == 2

StepBuild(r, name, arg) ==
  /\ ~aborted /\ pc = "idle" /\ ops < MaxBuildOps
  /\ \E result \in {r} : Commit(result)
  /\ last_op' = Op(name, arg)
  /\ ops' = ops + 1

NextBuild ==
  \/ \E def \in BuildDefs :
       ops = 0 /\ StepBuild(Sim, "setup_transistors", <<def, Canonical(def)>>)
  \/ \E segdefs \in SegTables :
       ops = 0 /\ StepBuild(Sim, "setup_nodes", <<segdefs, setup_nodes(segdefs)>>)
  \/ \E i \in RingTrans :
       StepBuild(turn_transistor_on(Sim, i), "turn_transistor_on", <<i, on[i]>>)

SpecBuild == Init /\ [][NextBuild]_vars

(***************************************************************************)
(* Properties.                                                             *)
(***************************************************************************)

Rails == {NODE_GND, NODE_PWR}

\* The operations that run the relaxation driver.
RelaxOps == {"init", "half_step", "set_high", "set_low", "write_byte", "float_byte", "set_bit"}

\* init(false) has completed at some point (nothing else clears a rail's
\* floating flag).
PoweredOn == ~floating[NODE_GND] /\ ~floating[NODE_PWR]

TransistorsFollowGates == \A i \in TransIds : on[i] = state[transistors[i].gate]

\* C1: after every public operation that returns, every transistor's on flag
\* equals the level of its gate node.
C1_OnEqualsGate == ~aborted => TransistorsFollowGates

\* C1 witness: after power-on a half step has returned with transistors both
\* on and off.
C1_Witness ==
  /\ ~aborted /\ PoweredOn /\ last_op.name = "half_step"
  /\ \E i \in TransIds : on[i] /\ transistors[i].gate # NODE_PWR
  /\ \E i \in TransIds : ~on[i]

\* C2: after a relaxing operation returns from a state that was at a fixed
\* point, every node but the rails has the level the resolver gives the group
\* collected from it.
C2_FixedPoint ==
  (~aborted /\ last_op.name \in RelaxOps /\ last_op.pre_settled) => Settled(Sim)

RailsHeld ==
  /\ ~state[NODE_GND] /\ ~floating[NODE_GND]
  /\ state[NODE_PWR] /\ ~floating[NODE_PWR]

\* C3 as stated: after any public operation, construction included, ground
\* is low and power is high, both non-floating.
C3_AsStated == ~aborted => RailsHeld

PowerOnReturned ==
  /\ ~aborted'
  /\ \/ last_op'.name = "init" /\ last_op'.arg = <<FALSE>>
     \/ last_op'.name = "load_rom"

\* C3: init(false), also as run by load_rom, leaves ground low and power
\* high, both non-floating; every later operation keeps them so; and no
\* operation other than that power-on changes the level of a rail.
C3_Rails ==
  [][/\ PowerOnReturned => RailsHeld'
     /\ RailsHeld => RailsHeld'
     /\ ~PowerOnReturned => /\ state'[NODE_GND] = state[NODE_GND]
                            /\ state'[NODE_PWR] = state[NODE_PWR]]_vars

\* C3 witness: a relaxation through a group that reaches a rail has returned
\* after power-on.
C3_Witness ==
  /\ ~aborted /\ RailsHeld /\ last_op.name = "half_step"
  /\ on[0] /\ ~state[NODE_CPU_CLK0]

\* C4: a relaxation runs at most 99 passes (loop counter 0..98); it returns
\* only right after a pass that left the successor list empty; with the
\* counter at 99 it aborts without running a pass.
C4_PassCap ==
  [][pc = "loop" =>
       /\ iter_count \in 0..ITER_PANIC
       /\ pc' \in {"loop", "idle", "panic"}
       /\ pc' = "panic" <=> iter_count = ITER_PANIC
       /\ pc' = "panic" => aborted' /\ state' = state /\ on' = on /\ lists' = lists
       /\ pc' = "idle" => ~aborted' /\ next_list(Sim') = <<>> /\ iter_count' = iter_count
       /\ pc' = "loop" => /\ ~aborted' /\ iter_count' = iter_count + 1
                          /\ cur_list(Sim') # <<>>]_vars

\* C4 witness: the abort after the 99th pass.
C4_Witness == pc = "panic" /\ aborted /\ iter_count = ITER_PANIC

Reverse(seq) == [k \in 1..Len(seq) |-> seq[Len(seq) + 1 - k]]

\* C7: from a fixed point, write_byte gives the same node levels and
\* transistor flags when its seed list is visited in the reverse order.
C7_OrderFree ==
  [][(last_op'.name = "write_byte" /\ last_op'.pre_settled /\ ~aborted') =>
       /\ recalc_node_list(WritePulls(Sim, last_op'.arg[1], last_op'.arg[2], 1),
                           Reverse(last_op'.arg[1])).state = state'
       /\ recalc_node_list(WritePulls(Sim, last_op'.arg[1], last_op'.arg[2], 1),
                           Reverse(last_op'.arg[1])).on = on']_vars

HighAtFixedPoint ==
  /\ last_op'.name = "set_high" /\ last_op'.pre_settled /\ last_op'.arg[2] /\ ~aborted'

\* C8 as stated: set_high on a node that is high at a fixed point leaves
\* every level, every flag and every transistor as it was.
C8_AsStated ==
  [][HighAtFixedPoint =>
       /\ state' = state /\ on' = on /\ floating' = floating
       /\ pullup' = pullup /\ pulldown' = pulldown]_vars

\* C8: set_high on a node that is high at a fixed point leaves every level,
\* every transistor and every floating flag as it was, and every pull flag
\* but the node's own: its pullup becomes true and its pulldown false.
C8_LevelsKept ==
  [][HighAtFixedPoint =>
       /\ state' = state /\ on' = on /\ floating' = floating
       /\ pullup' = [pullup EXCEPT ![last_op'.arg[1]] = TRUE]
       /\ pulldown' = [pulldown EXCEPT ![last_op'.arg[1]] = FALSE]]_vars

\* C8 witness: set_high has returned on a node that was high, without a
\* pullup of its own, at a fixed point.
C8_Witness ==
  /\ last_op.name = "set_high" /\ last_op.pre_settled /\ last_op.arg[2] /\ ~aborted
  /\ ~node_defs[last_op.arg[1]].pullup /\ ops = 2

AllCells(m1, m2) == DOMAIN m1 \cup DOMAIN m2

\* C9: a CPU write to RAM or program RAM reads back at the same address; a
\* RAM write shows at every address with the same low 11 bits and changes
\* no other cell; a write to 0x2000..0x7FFF changes no memory.
C9_RoundTrip ==
  [][last_op'.name = "cpu_write" =>
       /\ (last_op'.arg[1] < 8192 \/ last_op'.arg[1] >= 32768)
            => cpu_read(Sim', last_op'.arg[1]) = <<last_op'.arg[2], FALSE>>
       /\ last_op'.arg[1] < 8192 =>
            /\ \A b \in {x \in MemAddrs : x < 8192} :
                 cpu_read(Sim', b) =
                   IF b % 2048 = last_op'.arg[1] % 2048
                     THEN <<last_op'.arg[2], FALSE>> ELSE cpu_read(Sim, b)
            /\ \A i \in AllCells(cpu_ram, cpu_ram') :
                 i # last_op'.arg[1] % 2048 => MemGet(cpu_ram', i) = MemGet(cpu_ram, i)
            /\ prg_ram' = prg_ram
       /\ last_op'.arg[1] >= 32768 =>
            /\ \A i \in AllCells(prg_ram, prg_ram') :
                 i # last_op'.arg[1] - 32768 => MemGet(prg_ram', i) = MemGet(prg_ram, i)
            /\ cpu_ram' = cpu_ram
       /\ (last_op'.arg[1] >= 8192 /\ last_op'.arg[1] < 32768) =>
            cpu_ram' = cpu_ram /\ prg_ram' = prg_ram
       /\ chr_ram' = chr_ram /\ nametable_ram' = nametable_ram]_vars

\* C9 witness: a byte written through a mirror reads back at the base address
\* next to a cell written before.
C9_Witness ==
  /\ last_op.name = "cpu_write" /\ last_op.arg = <<6143, 255>>
  /\ cpu_read(Sim, 2047) = <<255, FALSE>>
  /\ cpu_read(Sim, 0) = <<1, FALSE>>

\* C10: a read of 0x2000..0x7FFF returns, flagged open bus, the byte the
\* half-step driver last sampled from the CPU data bus nodes.
C10_OpenBus ==
  ~aborted => \A a \in {8192, 16384, 32767} : cpu_read(Sim, a) = <<db_sampled, TRUE>>

(***************************************************************************)
(* PPU memory.                                                             *)
(***************************************************************************)

\* The address reduction and cell selection, in plain arithmetic.
Reduced(a) == IF (a % 16384) >= 12288 THEN (a % 16384) - 4096 ELSE a % 16384

TableOf(mode, r) == IF mode = "Horizontal" THEN (r \div 2048) % 2 ELSE (r \div 1024) % 2

CellOf(mode, a) ==
  IF Reduced(a) < 8192 THEN <<"chr", 0, Reduced(a)>>
  ELSE <<"nametable", TableOf(mode, Reduced(a)), Reduced(a) % 1024>>

\* C11: ppu_write stores the byte in the cell its reduced address selects
\* and nowhere else; ppu_read of any address reducing to that cell returns
\* it, any other address reads as before; every index is inside its array.
C11_PpuDecode ==
  [][last_op'.name = "ppu_write" =>
       /\ ~aborted'
       /\ mirroring_type' = mirroring_type
       /\ mirroring_type \in {"Horizontal", "Vertical"}
       /\ \A b \in PpuAddrs :
            ppu_read(Sim', b) =
              IF CellOf(mirroring_type, b) = CellOf(mirroring_type, last_op'.arg[1])
                THEN last_op'.arg[2] ELSE ppu_read(Sim, b)
       /\ Reduced(last_op'.arg[1]) < 8192 =>
            /\ chr_ram' = MemSet(chr_ram, Reduced(last_op'.arg[1]), last_op'.arg[2])
            /\ nametable_ram' = nametable_ram
       /\ Reduced(last_op'.arg[1]) >= 8192 =>
            /\ chr_ram' = chr_ram
            /\ \A t \in 0..3 :
                 nametable_ram'[t] =
                   IF t = TableOf(mirroring_type, Reduced(last_op'.arg[1]))
                     THEN MemSet(nametable_ram[t], Reduced(last_op'.arg[1]) % 1024,
                                 last_op'.arg[2])
                     ELSE nametable_ram[t]
       /\ DOMAIN chr_ram' \subseteq 0..8191
       /\ DOMAIN nametable_ram' = 0..3
       /\ \A t \in 0..3 : DOMAIN nametable_ram'[t] \subseteq 0..1023
       /\ cpu_ram' = cpu_ram /\ prg_ram' = prg_ram]_vars

\* C11 witness: under vertical mirroring a byte written through the 0x3000
\* mirror of the second nametable reads back at 0x2400, next to a byte
\* written to pattern memory before.
C11_Witness ==
  /\ mirroring_type = "Vertical"
  /\ last_op.name = "ppu_write" /\ last_op.arg = <<13312, 255>>
  /\ ppu_read(Sim, 9216) = 255
  /\ ppu_read(Sim, 8192) = 0
  /\ ppu_read(Sim, 8191) = 1

NametablesZero == \A t \in 0..3 : DOMAIN nametable_ram[t] = {}

FirstNametableWrite ==
  /\ last_op'.name = "ppu_write" /\ last_op'.arg[1] = 8192
  /\ NametablesZero /\ ~aborted'

\* C12 as stated: after the first write ppu_write(0x2000, X), horizontal
\* mirroring reads X at 0x2400 and something else at 0x2800, vertical
\* mirroring reads X at 0x2800 and something else at 0x2400, for any byte X.
C12_AsStated ==
  [][FirstNametableWrite =>
       /\ mirroring_type = "Horizontal" =>
            /\ ppu_read(Sim', 9216) = last_op'.arg[2]
            /\ ppu_read(Sim', 10240) # last_op'.arg[2]
       /\ mirroring_type = "Vertical" =>
            /\ ppu_read(Sim', 10240) = last_op'.arg[2]
            /\ ppu_read(Sim', 9216) # last_op'.arg[2]]_vars

\* C12: after the first write ppu_write(0x2000, X), horizontal mirroring
\* reads X at 0x2400 and still 0 at 0x2800, vertical mirroring reads X at
\* 0x2800 and still 0 at 0x2400; the two reads differ exactly when X is not 0.
C12_Mirroring ==
  [][FirstNametableWrite =>
       /\ mirroring_type \in {"Horizontal", "Vertical"}
       /\ mirroring_type = "Horizontal" =>
            /\ ppu_read(Sim', 9216) = last_op'.arg[2]
            /\ ppu_read(Sim', 10240) = 0
       /\ mirroring_type = "Vertical" =>
            /\ ppu_read(Sim', 10240) = last_op'.arg[2]
            /\ ppu_read(Sim', 9216) = 0]_vars

\* C12 witness: right after a vertically mirrored image was loaded, 255 was
\* written to 0x2000 and reads back at 0x2800 but not at 0x2400.
C12_Witness ==
  /\ mirroring_type = "Vertical" /\ ops = 2
  /\ last_op.name = "ppu_write" /\ last_op.arg = <<8192, 255>>
  /\ ppu_read(Sim, 10240) = 255
  /\ ppu_read(Sim, 9216) = 0

(***************************************************************************)
(* Image loading.                                                          *)
(***************************************************************************)

Unsupported(rom) == rom.mapper # 0 \/ rom.mirroring \notin {"Horizontal", "Vertical"}

\* C13: load_rom of an image with another mapper than 0 or another
\* mirroring mode than horizontal/vertical ends in the fatal error with every
\* field of the simulator as it was before the call.
C13_NoPartialState ==
  [][(last_op'.name = "load_rom" /\ Unsupported(last_op'.arg[1])) =>
       /\ aborted'
       /\ [Sim' EXCEPT !.aborted = FALSE] = Sim]_vars

\* C13 witness: an image with an unsupported mirroring mode was refused by
\* a simulator whose memories and nodes had been changed since construction.
C13_Witness ==
  /\ aborted /\ last_op.name = "load_rom"
  /\ last_op.arg[1].mapper = 0 /\ last_op.arg[1].mirroring = "FourScreens"
  /\ DOMAIN cpu_ram # {} /\ state[NODE_CLK0]

ImageByte(mem, i) == MemGet(mem.bytes, i % mem.len)

PrgCells(rom) ==
  {0, 16383, 16384, 32767} \cup DOMAIN prg_ram'
    \cup {j % 16384 : j \in DOMAIN rom.prg.bytes}
    \cup {(j % 16384) + 16384 : j \in DOMAIN rom.prg.bytes}

\* C14: when load_rom returns, program RAM holds the image's program ROM
\* (a 16 KiB image twice), character RAM the image's character ROM, CPU RAM
\* and the nametables are zero and the mirroring mode is the image's,
\* whatever was written before.
C14_Loaded ==
  [][(last_op'.name = "load_rom" /\ ~aborted') =>
       /\ mirroring_type' = last_op'.arg[1].mirroring
       /\ last_op'.arg[1].prg.len \in {16384, 32768}
       /\ \A i \in PrgCells(last_op'.arg[1]) :
            /\ i \in 0..32767
            /\ MemGet(prg_ram', i) = ImageByte(last_op'.arg[1].prg, i)
       /\ last_op'.arg[1].prg.len = 16384 =>
            \A i \in PrgCells(last_op'.arg[1]) :
              i < 16384 => MemGet(prg_ram', i) = MemGet(prg_ram', i + 16384)
       /\ \A i \in {0, 1, 8191} \cup DOMAIN chr_ram' \cup DOMAIN last_op'.arg[1].chr.bytes :
            /\ i \in 0..8191
            /\ MemGet(chr_ram', i) = MemGet(last_op'.arg[1].chr.bytes, i)
       /\ DOMAIN cpu_ram' = {}
       /\ \A t \in 0..3 : DOMAIN nametable_ram'[t] = {}]_vars

\* C14 witness: a 16 KiB image was loaded as the third operation and its
\* last byte shows at the end of both halves of program RAM.
C14_Witness ==
  /\ ~aborted /\ last_op.name = "load_rom" /\ ops = 3
  /\ last_op.arg[1].prg.len = 16384
  /\ MemGet(prg_ram, 16383) = 96 /\ MemGet(prg_ram, 32767) = 96
  /\ MemGet(chr_ram, 8191) = 3

(***************************************************************************)
(* The worklist.                                                           *)
(***************************************************************************)

NoQueuedBit == \A n \in NodeIds : ~processed_nodes[n]

\* C15: when a relaxation returns both worklist buffers are empty and no
\* queued bit is set, and a relaxation starts with its seeds as the current
\* list and an empty successor list.
C15_ScratchEmpty ==
  [][/\ (pc' = "idle" /\ ~aborted') =>
          lists'[0] = <<>> /\ lists'[1] = <<>> /\ NoQueuedBit'
     /\ (pc = "idle" /\ pc' = "loop") =>
          cur_list(Sim') = <<last_op'.arg[1]>> /\ next_list(Sim') = <<>>]_vars

Members(q) == {q[k] : k \in 1..Len(q)}

WorklistOk(s) ==
  /\ Members(cur_list(s)) \cap Members(next_list(s)) = {}
  /\ Cardinality(Members(next_list(s))) = Len(next_list(s))
  /\ \A n \in NodeIds : s.processed_nodes[n] <=> n \in Members(next_list(s))

\* C16: between the rounds of a relaxation, at the end of each pass over
\* the current list and after the relaxation returns, no node is in both
\* buffers, none is twice in the successor buffer, and the queued bits are
\* exactly the members of the successor buffer.
C16_Worklist ==
  ~aborted =>
    /\ WorklistOk(Sim)
    /\ (pc = "loop" /\ iter_count < ITER_PANIC) => WorklistOk(RunPass(Sim))

(***************************************************************************)
(* The framebuffer.                                                        *)
(***************************************************************************)

\* A framebuffer entry as <<alpha byte, low 24 bits>>; an entry never written
\* since it was zeroed is the word 0.
Pixel(i) == IF i \in DOMAIN ppu_framebuffer THEN ppu_framebuffer[i] ELSE <<0, 0>>

PaletteValues == {PALETTE_ARGB[k] : k \in 1..Len(PALETTE_ARGB)}

\* The first and last entry of the first row, the last entry of the frame
\* and every entry written so far.
FrameCells == {0, 255, 61439} \cup DOMAIN ppu_framebuffer

\* C17: after init(false) and after every half_step that follows it, every
\* framebuffer entry has alpha 0xFF and is one of the 64 palette values.
C17_FramePalette ==
  (/\ ~aborted /\ PoweredOn
   /\ \/ last_op.name = "init" /\ last_op.arg = <<FALSE>>
      \/ last_op.name = "half_step") =>
    \A i \in FrameCells : Pixel(i)[1] = 255 /\ Pixel(i) \in PaletteValues

(***************************************************************************)
(* Latch writes.                                                           *)
(***************************************************************************)

Present(pair) == pair[1] >= 0 /\ pair[2] >= 0

RECURSIVE PresentBits(_, _, _, _)
\* set_bit applied, lowest bit first, to the latch pairs of `pairs` that
\* have no negative id: towards node1 for a set bit of val, towards node0
\* for a clear one.
PresentBits(s, pairs, val, b) ==
  IF s.aborted \/ b > Len(pairs) THEN s
  ELSE IF ~Present(pairs[b]) THEN PresentBits(s, pairs, val, b + 1)
  ELSE IF (val \div Pow2(b - 1)) % 2 = 1
    THEN PresentBits(set_bit(s, pairs[b][2], pairs[b][1]), pairs, val, b + 1)
    ELSE PresentBits(set_bit(s, pairs[b][1], pairs[b][2]), pairs, val, b + 1)

\* C18: set_bit with a negative id changes no field of the simulator and
\* runs no relaxation; palette_write and sprite_write do what set_bit does
\* on the bits whose latch pair has no negative id, in bit order, and
\* nothing for the others.
C18_NegativeNoOp ==
  [][/\ (last_op'.name = "set_bit" /\ (last_op'.arg[1] < 0 \/ last_op'.arg[2] < 0)) =>
          Sim' = Sim
     /\ last_op'.name = "palette_write" =>
          Sim' = PresentBits(Sim, palette_nodes[last_op'.arg[1] + 1], last_op'.arg[2], 1)
     /\ last_op'.name = "sprite_write" =>
          Sim' = PresentBits(Sim, sprite_nodes[last_op'.arg[1] + 1], last_op'.arg[2], 1)]_vars

\* C18 witness: after power-on, palette_write of a byte with bit 1 set, to
\* a palette byte whose bits 0, 2 and 3 have a negative id, has switched the
\* latch of bit 1 over.
C18_Witness ==
  /\ ~aborted /\ PoweredOn
  /\ last_op.name = "palette_write" /\ last_op.arg = <<1, 255>>
  /\ state[6001] /\ ~state[6002]
  /\ on[2] /\ ~on[3]

(***************************************************************************)
(* Power-on after a history.                                               *)
(***************************************************************************)

\* init(false) on a freshly built simulator
FreshPowerOn == init(NewSim, FALSE)

\* C19: after init(false), whatever half_step, write_byte, float_byte,
\* set_bit and init(true) calls came before it, the node levels, the
\* pullup, pulldown and floating flags and the transistor flags are those
\* of init(false) on a freshly built simulator.
C19_PowerOnFresh ==
  (~aborted /\ last_op.name = "init" /\ last_op.arg = <<FALSE>>) =>
     /\ state = FreshPowerOn.state
     /\ pullup = FreshPowerOn.pullup
     /\ pulldown = FreshPowerOn.pulldown
     /\ floating = FreshPowerOn.floating
     /\ on = FreshPowerOn.on

(***************************************************************************)
(* ProcessedNodesSet.                                                      *)
(***************************************************************************)

\* the ids the bit vector has room for
Capacity == 0..(8 * Len(set) - 1)

Listed(nodes) == {nodes[i] : i \in 1..Len(nodes)}

\* C20 (construction): new(N) holds the least number of bytes with eight
\* bits each that cover N ids, and no id is a member.
C20_NewEmpty ==
  last_op.name = "new" =>
    \A node_count \in SetCounts :
      last_op.arg = <<node_count>> =>
        /\ 8 * Len(set) >= node_count
        /\ 8 * Len(set) < node_count + 8
        /\ \A m \in Capacity : ~pns_contains(set, m)

\* C20 (updates): a set(n) that returns makes n a member and changes the
\* membership of no other id; a clear(list) that returns removes exactly
\* the listed ids; the bytes never leave the u8 range.
C20_Updates ==
  [][~aborted' =>
       /\ Len(set') = Len(set)
       /\ \A k \in 1..Len(set') : set'[k] \in 0..255
       /\ last_op'.name = "set" =>
            \A m \in Capacity :
              pns_contains(set', m) <=> (m = last_op'.arg[1] \/ pns_contains(set, m))
       /\ last_op'.name = "clear" =>
            \A m \in Capacity :
              pns_contains(set', m) <=>
                (pns_contains(set, m) /\ m \notin Listed(last_op'.arg[1]))]_vars

\* C20: ProcessedNodesSet is a set of ids: empty with ceil(N/8) bytes after
\* new(N), and contains(m) holds exactly when m was set and not cleared
\* afterwards, ids sharing a byte not disturbing each other.
C20_BitSet == C20_NewEmpty /\ C20_Updates

\* C20 witness: in a set built for 20 ids, after set(0), set(1) and
\* clear([1, 2, 9]), id 0 is still a member and id 1, of the same byte, is not.
C20_Witness ==
  /\ ~aborted /\ Len(set) = 3 /\ ops = 3
  /\ last_op.name = "clear" /\ last_op.arg = << <<1, 2, 9>> >>
  /\ pns_contains(set, 0) /\ ~pns_contains(set, 1)
  /\ set = <<1, 0, 0>>

(***************************************************************************)
(* The resolver, get_node_value.                                           *)
(***************************************************************************)

GroupSet == {group[k] : k \in 1..Len(group)}

\* the group holds one of the eight nets named by the resolver
HasListed == GroupSet \cap {359, 566, 691, 818, 856, 864, 870, 871} # {}

\* the value get_node_value returned in the step just taken
Returned == last_op.arg[1]

\* C21: a group that reached ground only, or both rails with none of the
\* eight listed nets in it, resolves low; one that reached power only
\* resolves high; neither looks at pulls or areas.  A group that reached
\* both rails and holds a listed net has both rail flags cleared and
\* resolves as the same group would with no rail reached.
C21_RailStep ==
  [][last_op'.name = "get_node_value" =>
       /\ (has_ground /\ (~has_power \/ ~HasListed)) =>
            (~Returned' /\ has_ground' = has_ground /\ has_power' = has_power)
       /\ (has_power /\ ~has_ground) =>
            (Returned' /\ has_ground' = has_ground /\ has_power' = has_power)
       /\ (has_ground /\ has_power /\ HasListed) =>
            /\ ~has_ground' /\ ~has_power'
            /\ Returned' = get_node_value([Sim EXCEPT !.has_ground = FALSE,
                                                      !.has_power = FALSE])]_vars

\* C21 witness: net 3006 alone, tied to both rails and pulled up, has
\* resolved low with both rail flags still set.
C21_Witness ==
  /\ last_op.name = "get_node_value" /\ ~Returned
  /\ group = <<3006>> /\ has_ground /\ has_power
  /\ pullup[3006] /\ state[3006]

\* C22: when no rail decides, a group with a pulled-up node resolves high,
\* whatever the order of its nodes, and a group with no pulled-up node and
\* a pulled-down one resolves low.
C22_PullStep ==
  [][(last_op'.name = "get_node_value" /\ ~has_ground' /\ ~has_power') =>
       /\ (\E n \in GroupSet : pullup[n]) => Returned'
       /\ ((\A n \in GroupSet : ~pullup[n]) /\ (\E n \in GroupSet : pulldown[n])) =>
            ~Returned']_vars

RECURSIVE TotalArea(_)
\* the summed area of a set of nodes
TotalArea(ns) ==
  IF ns = {} THEN 0
  ELSE LET n == CHOOSE x \in ns : TRUE IN node_defs[n].area + TotalArea(ns \ {n})

\* C23: with no rail flag left and no pulled node in the group, the group
\* resolves high exactly when the area of its high nodes exceeds the area
\* of its low nodes; equal areas resolve low.
C23_AreaStep ==
  [][(/\ last_op'.name = "get_node_value"
      /\ ~has_ground' /\ ~has_power'
      /\ \A n \in GroupSet : ~pullup[n] /\ ~pulldown[n]) =>
       (Returned' <=> TotalArea({n \in GroupSet : state[n]})
                        > TotalArea({n \in GroupSet : ~state[n]}))]_vars

\* C23 witness: the ring as one group with no rail and no pull, net 359
\* (area 2) high against 566 and 3006 (area 1 each) low, has resolved low.
C23_Witness ==
  /\ last_op.name = "get_node_value" /\ ~Returned
  /\ GroupSet = {359, 566, 3006} /\ ~has_ground /\ ~has_power
  /\ \A n \in GroupSet : ~pullup[n] /\ ~pulldown[n]
  /\ state[359] /\ ~state[566] /\ ~state[3006]
  /\ node_defs[359].area = 2 /\ node_defs[566].area = 1 /\ node_defs[3006].area = 1

(***************************************************************************)
(* The group collector, get_node_group.                                    *)
(***************************************************************************)

\* the conducting transistors, as the pairs of nodes their channels join
Joined ==
  {<<trans_defs[i + 1].c1, trans_defs[i + 1].c2>> : i \in {j \in TransIds : on[j]}}

\* the non-rail nodes one conducting channel away from a node of ns
Neighbours(ns) ==
  ({e[2] : e \in {x \in Joined : x[1] \in ns}}
     \cup {e[1] : e \in {x \in Joined : x[2] \in ns}}) \ Rails

RECURSIVE Reachable(_)
\* the least set holding ns and closed under Neighbours
Reachable(ns) ==
  IF Neighbours(ns) \subseteq ns THEN ns ELSE Reachable(ns \cup Neighbours(ns))

\* some conducting channel joins a node of ns to the rail r
Touches(ns, r) ==
  \E e \in Joined : (e[1] \in ns /\ e[2] = r) \/ (e[2] \in ns /\ e[1] = r)

\* C24: get_node_group from a non-rail seed returns with group holding,
\* once each, exactly the non-rail nodes reachable from the seed through
\* conducting channels without crossing a rail, the seed among them, and
\* has_ground / has_power telling whether a conducting channel joins a
\* member to that rail.
C24_Collector ==
  last_op.name = "get_node_group" =>
    /\ GroupSet = Reachable({last_op.arg[1]})
    /\ Len(group) = Cardinality(GroupSet)
    /\ last_op.arg[1] \in GroupSet
    /\ GroupSet \cap Rails = {}
    /\ has_ground <=> Touches(GroupSet, NODE_GND)
    /\ has_power <=> Touches(GroupSet, NODE_PWR)

\* C24 witness: with the three ring transistors conducting (a cycle) and a
\* tie to each rail, the collector started at 566 has returned the three
\* nets and both rail flags.
C24_Witness ==
  /\ last_op.name = "get_node_group" /\ last_op.arg = <<566>>
  /\ on[9] /\ on[10] /\ on[11] /\ on[12] /\ on[15]
  /\ Len(group) = 3 /\ GroupSet = {359, 566, 3006}
  /\ has_ground /\ has_power

(***************************************************************************)
(* The relaxation driver: what is queued, and when it is processed.        *)
(***************************************************************************)

\* C25: of the enqueue discipline of turn_transistor_on, turn_transistor_off
\* and add_recalc_node, the part a state shows: the list for the next pass
\* never holds ground or power, and never holds a node twice (a node already
\* queued for the next pass is not queued again).
C25_QueuedOnce ==
  /\ \A k \in 1..Len(next_list(Sim)) : ~IsRail(next_list(Sim)[k])
  /\ \A j, k \in 1..Len(next_list(Sim)) :
       next_list(Sim)[j] = next_list(Sim)[k] => j = k

\* one node of a pass, its group collected against the transistor flags
\* `snapshot` instead of the current ones
SnapshotNode(s, n, snapshot) ==
  IF IsRail(n) THEN s
  ELSE SetGroupValue(ClearRailsIfWeak(
         [get_node_group([s EXCEPT !.on = snapshot], n) EXCEPT !.on = s.on]))

RECURSIVE SnapshotPass(_, _, _)
\* a pass over the current list from entry k on, every group collected
\* against the transistor flags `snapshot`
SnapshotPass(s, k, snapshot) ==
  IF s.aborted \/ k > Len(cur_list(s)) THEN s
  ELSE SnapshotPass(SnapshotNode(s, cur_list(s)[k], snapshot), k + 1, snapshot)

\* C26: a pass of the relaxation loop collects every group against the
\* transistor flags as they were when the pass began, so the node levels,
\* the transistor flags and the nodes queued for the next pass that it
\* leaves are those of a pass run against that snapshot.
C26_PassSnapshot ==
  [][(pc = "loop" /\ iter_count < ITER_PANIC) =>
       /\ state' = SnapshotPass(Sim, 1, on).state
       /\ on' = SnapshotPass(Sim, 1, on).on]_vars

(***************************************************************************)
(* Pull flags.                                                             *)
(***************************************************************************)

\* no node is pulled both ways
PullsNormal == \A n \in NodeIds : ~(pullup[n] /\ pulldown[n])

\* set_high(n) has left n pulled up only, set_low(n) pulled down only
PulledAsDriven ==
  /\ last_op.name = "set_high" => (pullup[last_op.arg[1]] /\ ~pulldown[last_op.arg[1]])
  /\ last_op.name = "set_low" => (pulldown[last_op.arg[1]] /\ ~pullup[last_op.arg[1]])

\* set_high / set_low end as one relaxation seeded with the node alone,
\* started from the state with the node's two flags written
OneRelaxation ==
  /\ last_op'.name = "set_high" =>
       Sim' = recalc_node_list([Sim EXCEPT !.pullup[last_op'.arg[1]] = TRUE,
                                           !.pulldown[last_op'.arg[1]] = FALSE],
                               <<last_op'.arg[1]>>)
  /\ last_op'.name = "set_low" =>
       Sim' = recalc_node_list([Sim EXCEPT !.pullup[last_op'.arg[1]] = FALSE,
                                           !.pulldown[last_op'.arg[1]] = TRUE],
                               <<last_op'.arg[1]>>)

\* C27: in every state reached by set_high, set_low, write_byte,
\* float_byte, set_bit, init and half_step no node has both pull flags set;
\* set_high(n) leaves n pulled up only and set_low(n) pulled down only, each
\* after exactly one relaxation seeded with [n].
C27_PullsNormal == [](PullsNormal /\ PulledAsDriven) /\ [][OneRelaxation]_vars

\* C27 witness: set_low on cpu_rw, a node built with its pullup set, has
\* left it pulled down only.
C27_Witness ==
  /\ ~aborted /\ last_op.name = "set_low" /\ last_op.arg[1] = NODE_CPU_RW
  /\ node_defs[NODE_CPU_RW].pullup
  /\ pulldown[NODE_CPU_RW] /\ ~pullup[NODE_CPU_RW]

\* bit i (0 the lowest) of the byte val
BitOf(val, i) == (val \div Pow2(i)) % 2 = 1

\* the position of node n in the list nodes
PlaceOf(nodes, n) == CHOOSE i \in 1..Len(nodes) : nodes[i] = n

\* the simulator with the pulls of write_byte(nodes, val) written and
\* nothing else changed
ByteDriven(nodes, val) ==
  [Sim EXCEPT
     !.pullup = [n \in NodeIds |->
                   IF n \in Listed(nodes) THEN BitOf(val, PlaceOf(nodes, n) - 1)
                                          ELSE pullup[n]],
     !.pulldown = [n \in NodeIds |->
                     IF n \in Listed(nodes) THEN ~BitOf(val, PlaceOf(nodes, n) - 1)
                                            ELSE pulldown[n]]]

\* the simulator with the pulls of float_byte(nodes) written and nothing
\* else changed
ByteFloated(nodes) ==
  [Sim EXCEPT
     !.pullup = [n \in NodeIds |-> IF n \in Listed(nodes) THEN FALSE ELSE pullup[n]],
     !.pulldown = [n \in NodeIds |-> IF n \in Listed(nodes) THEN FALSE ELSE pulldown[n]]]

\* C28: write_byte(nodes, val) leaves node i of the list pulled up when bit
\* i of val is set and pulled down when it is clear, bit 0 first;
\* float_byte(nodes) leaves the eight with neither pull; no other node's
\* pull flags change; and the result is that of one relaxation seeded with
\* the eight nodes, started after all eight were written.
C28_ByteDrive ==
  [][/\ last_op'.name = "write_byte" =>
          /\ pullup' = ByteDriven(last_op'.arg[1], last_op'.arg[2]).pullup
          /\ pulldown' = ByteDriven(last_op'.arg[1], last_op'.arg[2]).pulldown
          /\ Sim' = recalc_node_list(ByteDriven(last_op'.arg[1], last_op'.arg[2]),
                                     last_op'.arg[1])
     /\ last_op'.name = "float_byte" =>
          /\ pullup' = ByteFloated(last_op'.arg[1]).pullup
          /\ pulldown' = ByteFloated(last_op'.arg[1]).pulldown
          /\ Sim' = recalc_node_list(ByteFloated(last_op'.arg[1]), last_op'.arg[1])]_vars

\* C28 witness: write_byte of 2 on the cpu data bus has left cpu_db1 pulled
\* up and the other seven pulled down.
C28_Witness ==
  /\ ~aborted /\ last_op.name = "write_byte" /\ last_op.arg = <<CpuDataBus, 2>>
  /\ pullup[NODE_CPU_DB1] /\ ~pulldown[NODE_CPU_DB1]
  /\ \A n \in Listed(CpuDataBus) \ {NODE_CPU_DB1} : pulldown[n] /\ ~pullup[n]

(***************************************************************************)
(* half_step.                                                              *)
(***************************************************************************)

\* the master clock driven once, away from its level at entry
ClockDriven ==
  IF state[NODE_CLK0] THEN set_low(Sim, NODE_CLK0) ELSE set_high(Sim, NODE_CLK0)

\* C29: half_step first drives clk0 to the opposite of its level at entry,
\* once; then the io_ce decoder, the cartridge bus, the cpu bus (on a change
\* of cpu_clk0 from its level at entry) and the video sampler run in that
\* order; so of two half steps in a row one drives clk0 high and the other
\* low.
C29_ClockFirst ==
  [][last_op'.name = "half_step" =>
       /\ Sim' = VideoSample(CpuBus(handle_chr_bus(IoCeDecoder(ClockDriven)),
                                    state[NODE_CPU_CLK0]))
       /\ pullup'[NODE_CLK0] = ~state[NODE_CLK0]
       /\ pulldown'[NODE_CLK0] = state[NODE_CLK0]
       /\ last_op.name = "half_step" =>
            /\ pullup'[NODE_CLK0] = ~pullup[NODE_CLK0]
            /\ pulldown'[NODE_CLK0] = ~pulldown[NODE_CLK0]]_vars

\* C29 witness: the fifth operation, a half step entered with clk0 high,
\* has driven clk0 low, and cpu_clk0, its inverse, has risen.
C29_Witness ==
  /\ ~aborted /\ ops = 5 /\ last_op.name = "half_step"
  /\ pulldown[NODE_CLK0] /\ ~pullup[NODE_CLK0] /\ ~state[NODE_CLK0]
  /\ state[NODE_CPU_CLK0]

\* the decoder's trigger, on the levels of state function st
Selected(st) ==
  st[NODE_CPU_AB13] /\ ~st[NODE_CPU_AB14] /\ ~st[NODE_CPU_AB15] /\ st[NODE_CPU_CLK0]

\* the pull flags of io_ce
IoCePulls == <<pullup[NODE_IO_CE], pulldown[NODE_IO_CE]>>

\* C30: step_cycle_count stays within 0..11.  A half step entered with the
\* counter at 0 that finds, after the clock toggle, cpu_ab13 high, cpu_ab14
\* and cpu_ab15 low and cpu_clk0 high drives io_ce low and loads 11; a half
\* step entered with the counter above 0 only decrements it, and the one
\* that takes it from 1 to 0 (the 11th after the load) drives io_ce high
\* and leaves the counter at 0 whatever the trigger says.
C30_Decoder ==
  /\ [](step_cycle_count \in 0..11)
  /\ [][(last_op'.name = "half_step" /\ ~aborted') =>
          /\ (step_cycle_count = 0 /\ Selected(ClockDriven.state)) =>
               (step_cycle_count' = 11 /\ IoCePulls' = <<FALSE, TRUE>>)
          /\ (step_cycle_count = 0 /\ ~Selected(ClockDriven.state)) =>
               (step_cycle_count' = 0 /\ IoCePulls' = IoCePulls)
          /\ step_cycle_count > 1 =>
               (step_cycle_count' = step_cycle_count - 1 /\ IoCePulls' = IoCePulls)
          /\ step_cycle_count = 1 =>
               (step_cycle_count' = 0 /\ IoCePulls' = <<TRUE, FALSE>>)]_vars

\* C30 witness: a half step has ended with the counter at 0 and io_ce
\* driven high while the trigger levels hold: the half step that released
\* io_ce did not load the counter again.
C30_Witness ==
  /\ ~aborted /\ last_op.name = "half_step"
  /\ step_cycle_count = 0 /\ IoCePulls = <<TRUE, FALSE>> /\ state[NODE_IO_CE]
  /\ Selected(state)

(***************************************************************************)
(* The cartridge bus handler, handle_chr_bus.                              *)
(***************************************************************************)

RECURSIVE BusValue(_, _, _)
\* the number whose bit i - 1 is the level st of node i of the list, from
\* node k on
BusValue(st, nodes, k) ==
  IF k > Len(nodes) THEN 0
  ELSE (IF st[nodes[k]] THEN Pow2(k - 1) ELSE 0) + BusValue(st, nodes, k + 1)

\* the simulator as handle_chr_bus finds it in this half step
AtChrBus == IoCeDecoder(ClockDriven)

\* C31: a half step changes chr_address only when ale was low at the
\* previous half step's sample and is high now, and then to the value of
\* address lines 0..13, line 0 the lowest bit; with ale staying high,
\* staying low or falling, chr_address keeps its value.
C31_AddressLatch ==
  [][(last_op'.name = "half_step" /\ ~aborted') =>
       IF ~prev_ppu_ale /\ AtChrBus.state[NODE_ALE]
         THEN chr_address' = BusValue(AtChrBus.state, PpuAddressBus, 1)
         ELSE chr_address' = chr_address]_vars

\* the pull flags of the eight data lines of the cartridge bus
DataPulls == [k \in 1..8 |-> <<pullup[PpuDataBus[k]], pulldown[PpuDataBus[k]]>>]

AtChrWrite ==
  ChrFloat(ChrRead(ChrAle(AtChrBus, AtChrBus.state[NODE_ALE]),
                   AtChrBus.state[NODE_RD]),
           AtChrBus.state[NODE_RD])

\* C33: in a half step that finds /WR high after a sample that had it low,
\* one ppu_write(chr_address, v) is made, v being the byte on the eight
\* data lines at that moment; no other half step writes a cell of PPU
\* memory; last_data takes the byte on the data lines in a half step that
\* ends with /RD or /WR low and keeps its value otherwise.
C33_WriteStrobe ==
  [][(last_op'.name = "half_step" /\ ~aborted') =>
       /\ IF ~prev_ppu_write /\ AtChrBus.state[NODE_WR]
            THEN /\ chr_ram' = ppu_write(Sim, chr_address',
                                         BusValue(AtChrWrite.state, PpuDataBus, 1)).chr_ram
                 /\ nametable_ram' =
                      ppu_write(Sim, chr_address',
                                BusValue(AtChrWrite.state, PpuDataBus, 1)).nametable_ram
            ELSE chr_ram' = chr_ram /\ nametable_ram' = nametable_ram
       /\ IF ~state'[NODE_RD] \/ ~state'[NODE_WR]
            THEN last_data' = BusValue(state', PpuDataBus, 1)
            ELSE last_data' = last_data]_vars


\* the simulator as the cpu bus stage of half_step finds it
AtCpuBus == handle_chr_bus(AtChrBus)

\* the pull flags of the eight cpu data lines
CpuPulls == [k \in 1..8 |-> <<pullup[CpuDataBus[k]], pulldown[CpuDataBus[k]]>>]

\* cpu_clk0 high at entry to this half step and low after the clock toggle
CpuClkFell == state[NODE_CPU_CLK0] /\ ~AtCpuBus.state[NODE_CPU_CLK0]

\* cpu_clk0 low at entry to this half step and high after the clock toggle
CpuClkRose == ~state[NODE_CPU_CLK0] /\ AtCpuBus.state[NODE_CPU_CLK0]

\* C34: in a half step where cpu_clk0 falls with R/W high, no cpu memory
\* cell changes and the cpu data lines are floated when cpu_read of the
\* address lines is open bus and driven with its byte otherwise; where
\* cpu_clk0 rises with R/W low, cpu memory becomes that of one
\* cpu_write(address lines, data lines) and the data lines' pulls are left
\* alone; in every other half step neither cpu memory nor those pulls change.
C34_CpuBus ==
  [][(last_op'.name = "half_step" /\ ~aborted') =>
       /\ (CpuClkFell /\ AtCpuBus.state[NODE_CPU_RW]) =>
            /\ cpu_ram' = cpu_ram /\ prg_ram' = prg_ram
            /\ CpuPulls' =
                 IF cpu_read(Sim, BusValue(AtCpuBus.state, CpuAddressBus, 1))[2]
                   THEN [k \in 1..8 |-> <<FALSE, FALSE>>]
                   ELSE [k \in 1..8 |->
                           <<BitOf(cpu_read(Sim, BusValue(AtCpuBus.state, CpuAddressBus, 1))[1], k - 1),
                             ~BitOf(cpu_read(Sim, BusValue(AtCpuBus.state, CpuAddressBus, 1))[1], k - 1)>>]
       /\ (CpuClkRose /\ ~AtCpuBus.state[NODE_CPU_RW]) =>
            /\ cpu_ram' = cpu_write(Sim, BusValue(AtCpuBus.state, CpuAddressBus, 1),
                                    BusValue(AtCpuBus.state, CpuDataBus, 1)).cpu_ram
            /\ prg_ram' = cpu_write(Sim, BusValue(AtCpuBus.state, CpuAddressBus, 1),
                                    BusValue(AtCpuBus.state, CpuDataBus, 1)).prg_ram
            /\ CpuPulls' = CpuPulls
       /\ ~((CpuClkFell /\ AtCpuBus.state[NODE_CPU_RW])
              \/ (CpuClkRose /\ ~AtCpuBus.state[NODE_CPU_RW])) =>
            /\ cpu_ram' = cpu_ram /\ prg_ram' = prg_ram
            /\ CpuPulls' = CpuPulls]_vars

\* C34 witness: a half step with cpu_clk0 rising and R/W low has stored the
\* byte on the data lines, 1, in cpu RAM cell 0, and a later half step with
\* cpu_clk0 falling and R/W high has driven the data lines with that cell.
C34_Witness ==
  /\ ~aborted /\ last_op.name = "half_step"
  /\ state[NODE_CPU_RW] /\ ~state[NODE_CPU_CLK0]
  /\ MemGet(cpu_ram, 0) = 1
  /\ BusValue(state, CpuAddressBus, 1) = 0
  /\ BusValue(pullup, CpuDataBus, 1) = 1
  /\ BusValue(pulldown, CpuDataBus, 1) = 254

\* the simulator as the pixel sampler of half_step finds it
AtVideo == CpuBus(AtCpuBus, state[NODE_CPU_CLK0])

\* the horizontal position the sampler computes in this half step
Hpos == BusValue(AtVideo.state, HposBus, 1) - 2

\* the vertical position the sampler reads in this half step
Vpos == BusValue(AtVideo.state, VposBus, 1)

\* the sampler has a pixel to store in this half step
PixelDue ==
  /\ AtVideo.state[NODE_PCLK1] /\ Hpos # prev_hpos
  /\ Hpos >= 0 /\ Hpos < 256 /\ Vpos < 240

\* C35: a half step changes the framebuffer only when pclk1 is high, hpos
\* (the nine hpos lines' value less 2) differs from the cached one, hpos is
\* in 0..255 and vpos below 240; then entry vpos * 256 + hpos, which lies in
\* 0..61439, takes PALETTE_ARGB at the six palette outputs' value and every
\* other entry stays.  A half step with pclk1 high leaves hpos cached, so
\* the next one with the same hpos stores nothing.
C35_VideoSample ==
  [][(last_op'.name = "half_step" /\ ~aborted') =>
       /\ IF PixelDue
            THEN /\ Vpos * 256 + Hpos \in 0..61439
                 /\ BusValue(AtVideo.state, PalOutBus, 1) \in 0..63
                 /\ ppu_framebuffer' =
                      (Vpos * 256 + Hpos
                         :> PALETTE_ARGB[BusValue(AtVideo.state, PalOutBus, 1) + 1])
                      @@ ppu_framebuffer
            ELSE ppu_framebuffer' = ppu_framebuffer
       /\ prev_hpos' = IF AtVideo.state[NODE_PCLK1] THEN Hpos ELSE prev_hpos]_vars

\* C35 witness: with pclk1 high, hpos 0 and vpos 1, one half step has stored
\* entry 256 and nothing else, and a second half step at the same hpos,
\* taken after palette output 1 was raised, has left that entry at the
\* colour of the earlier palette value.
C35_Witness ==
  /\ ~aborted /\ last_op.name = "half_step" /\ ops = 6
  /\ state[NODE_PCLK1] /\ state[NODE_PAL_D1_OUT]
  /\ prev_hpos = 0 /\ BusValue(state, HposBus, 1) = 2 /\ BusValue(state, VposBus, 1) = 1
  /\ DOMAIN ppu_framebuffer = {256}
  /\ ppu_framebuffer[256] = PALETTE_ARGB[BusValue(state, PalOutBus, 1) - 2 + 1]
  /\ ppu_framebuffer[256] # PALETTE_ARGB[BusValue(state, PalOutBus, 1) + 1]

RECURSIVE TogglesFrom(_, _)
\* n toggles of clk0 one after another, each from the level the one before
\* left
TogglesFrom(s, n) ==
  IF n = 0 \/ s.aborted THEN s
  ELSE TogglesFrom(ToggleOnce(s), n - 1)

\* the simulator after reset is driven low and clk0 toggled 193 times, one
\* toggle after another: 48 + 48 + 48 + 49
Toggled193 ==
  TogglesFrom(
    TogglesFrom(
      TogglesFrom(
        TogglesFrom(set_low(Sim, NODE_RESET), 48),
        48),
      48),
    49)

C37_RailsInC2 ==
  /\ [](last_op.name = "setup_transistors" =>
          /\ \/ /\ last_op.arg[2].c1 = last_op.arg[1].c1
                /\ last_op.arg[2].c2 = last_op.arg[1].c2
             \/ /\ last_op.arg[2].c1 = last_op.arg[1].c2
                /\ last_op.arg[2].c2 = last_op.arg[1].c1
          /\ last_op.arg[2].gate = last_op.arg[1].gate
          /\ (IsRail(last_op.arg[1].c1) # IsRail(last_op.arg[1].c2)) =>
               (IsRail(last_op.arg[2].c2) /\ ~IsRail(last_op.arg[2].c1))
          /\ IsRail(last_op.arg[2].c1) =>
               (IsRail(last_op.arg[1].c1) /\ IsRail(last_op.arg[1].c2)))
  /\ [](\A i \in TransIds :
          /\ transistors[i] = Canonical(trans_defs[i + 1])
          /\ IsRail(transistors[i].c1) =>
               (IsRail(trans_defs[i + 1].c1) /\ IsRail(trans_defs[i + 1].c2)))
  /\ [][\A i \in TransIds :
          (last_op'.name = "turn_transistor_on" /\ last_op'.arg = <<i, FALSE>>
             /\ ~(IsRail(transistors[i].c1) /\ IsRail(transistors[i].c2))) =>
            /\ on'[i]
            /\ ~IsRail(transistors[i].c1)
            /\ transistors[i].c1 \in {trans_defs[i + 1].c1, trans_defs[i + 1].c2}
            /\ processed_nodes'[transistors[i].c1]
            /\ \E k \in 1..Len(lists'[indices'[2]]) :
                 lists'[indices'[2]][k] = transistors[i].c1]_vars

\* C37 witness: the definition with power on c1 and net 359 on c2 was built
\* with 359 on c1 and power on c2.
C37_Witness ==
  /\ last_op.name = "setup_transistors"
  /\ last_op.arg[1].c1 = NODE_PWR /\ last_op.arg[1].c2 = 359
  /\ last_op.arg[2].c1 = 359 /\ last_op.arg[2].c2 = NODE_PWR

\* the number of (x, y) pairs of a segment record, fields 3 to the end
Corners(seg) == (Len(seg) - 3) \div 2

\* the x of corner k of a segment record, corners counted from 0 and
\* wrapping round
CornerX(seg, k) == At0(seg, 3 + 2 * (k % Corners(seg)))

\* the y of corner k of a segment record
CornerY(seg, k) == At0(seg, 4 + 2 * (k % Corners(seg)))

RECURSIVE ShoelaceSum(_, _)
\* the shoelace sum of a segment record's outline from corner k on: over
\* every edge, closing edge included, x of its start times y of its end less
\* x of its end times y of its start
ShoelaceSum(seg, k) ==
  IF k >= Corners(seg) THEN 0
  ELSE CornerX(seg, k) * CornerY(seg, k + 1) - CornerX(seg, k + 1) * CornerY(seg, k)
       + ShoelaceSum(seg, k + 1)

RECURSIVE OutlineArea(_, _, _)
\* the absolute shoelace sums of the records of a table that name node n,
\* from record k on, added up
OutlineArea(segdefs, n, k) ==
  IF k > Len(segdefs) THEN 0
  ELSE (IF segdefs[k][1] = n THEN Abs(ShoelaceSum(segdefs[k], 0)) ELSE 0)
       + OutlineArea(segdefs, n, k + 1)

\* C38: setup_nodes gives every node that is not a rail the area that is the
\* sum, over the records naming it, of the absolute shoelace sum of the
\* record's outline; ground and power get area 0; a node's pullup is that
\* of the first record naming it.  (Areas here stay far below 2^31, so the
\* sums are exact.)
C38_NodeArea ==
  last_op.name = "setup_nodes" =>
    \A n \in DOMAIN last_op.arg[2] :
      /\ last_op.arg[2][n].area =
           IF IsRail(n) THEN 0 ELSE OutlineArea(last_op.arg[1], n, 1)
      /\ \E k \in 1..Len(last_op.arg[1]) :
           /\ last_op.arg[1][k][1] = n
           /\ \A j \in 1..(k - 1) : last_op.arg[1][j][1] # n
           /\ last_op.arg[2][n].pullup = (last_op.arg[1][k][2] = 1)

\* C39: after every operation a node that is not a rail is flagged floating
\* only if neither of its pull flags is set and the group collected from it
\* holds no rail; so the node set_high or set_low drove and the nodes
\* write_byte drove are not flagged floating.
C39_Floating ==
  ~aborted =>
    /\ \A n \in NodeIds \ Rails :
         floating[n] =>
           /\ ~pullup[n] /\ ~pulldown[n]
           /\ ~get_node_group(Sim, n).has_ground
           /\ ~get_node_group(Sim, n).has_power
    /\ last_op.name \in {"set_high", "set_low"} => ~floating[last_op.arg[1]]
    /\ last_op.name = "write_byte" =>
         \A n \in Listed(last_op.arg[1]) : ~floating[n]

\* C40: in every state step_cycle_count is above 0 exactly when io_ce is
\* driven low (its pulldown flag set); a power-on leaves the counter at 0
\* with io_ce driven high, also when it comes in the middle of a countdown.
C40_DecoderPin ==
  ~aborted =>
    /\ (step_cycle_count > 0) <=> pulldown[NODE_IO_CE]
    /\ (last_op.name = "init" /\ last_op.arg = <<FALSE>>) =>
         (step_cycle_count = 0 /\ pullup[NODE_IO_CE] /\ ~pulldown[NODE_IO_CE])
====
